---- MODULE Spec2Model ----
(***************************************************************************)
(* A model of the Databricks MCP server (src/main.py): the three           *)
(* configuration values, the SQL handlers get_schema and run_sql_query     *)
(* with the connections they open, the REST request helper                 *)
(* databricks_api_request, the REST-backed tools, the markdown table       *)
(* rendering of run_sql_query and the DBFS upload/read pair.               *)
(***************************************************************************)
EXTENDS Integers, Sequences, FiniteSets, TLC

VARIABLES
    cfg,        \* DATABRICKS_HOST / DATABRICKS_TOKEN / DATABRICKS_HTTP_PATH: set or not
    pc,         \* position of the running SQL handler: "idle" or "connected"
    handler,    \* the handler being run, or the last one that ran ("none" at start)
    arg,        \* the arguments of that invocation
    conn,       \* the local variable conn of the running SQL handler (0: unbound)
    conns,      \* every connection constructed so far: [state, stmts, closes, owner, bad]
    calls,      \* remote requests attempted by the current/last invocation, in order
    out,        \* what the last finished invocation gave back to the host
    nInv,       \* number of SQL handler invocations started
    failed,     \* TRUE once a connect or a statement has failed
    result,     \* the cursor result (description, rows) the last invocation got
    dbfs,       \* the remote file store: a set of [path, bytes]
    io          \* the last upload to the store: content, path, ok, and their number

vars == <<cfg, pc, handler, arg, conn, conns, calls, out, nInv, failed, result,
          dbfs, io>>

----------------------------------------------------------------------------
(* Bounds of the model *)

MaxInvocations == 2
MaxCols == 2
MaxRows == 2
MaxText == 2
MaxUploads == 1
MaxConcurrent == 3

----------------------------------------------------------------------------
(* Small helpers over sequences *)

Min(a, b) == IF a < b THEN a ELSE b

RECURSIVE Concat(_)
Concat(ss) == IF ss = <<>> THEN <<>> ELSE Head(ss) \o Concat(Tail(ss))

SeqsUpTo(S, n) == UNION {[1..k -> S] : k \in 0..n}

----------------------------------------------------------------------------
(* Text: a Python str is a sequence of one-character strings *)

NL == "\n"
PIPE == "|"

\* " | ".join(parts)
RECURSIVE Join(_, _)
Join(sep, parts) ==
    IF parts = <<>> THEN <<>>
    ELSE IF Len(parts) = 1 THEN parts[1]
    ELSE parts[1] \o sep \o Join(sep, Tail(parts))

\* Values a cursor row can hold, and Python's str() of them
NoneCell == [t |-> "none", n |-> 0, s |-> <<>>]
IntCell(n) == [t |-> "int", n |-> n, s |-> <<>>]
StrCell(s) == [t |-> "str", n |-> 0, s |-> s]

Digit(d) == CASE d = 0 -> "0" [] d = 1 -> "1" [] d = 2 -> "2" [] d = 3 -> "3"
              [] d = 4 -> "4" [] d = 5 -> "5" [] d = 6 -> "6" [] d = 7 -> "7"
              [] d = 8 -> "8" [] d = 9 -> "9"

RECURSIVE Digits(_)
Digits(n) == IF n < 10 THEN <<Digit(n)>> ELSE Digits(n \div 10) \o <<Digit(n % 10)>>

Str(cell) ==
    CASE cell.t = "none" -> <<"N", "o", "n", "e">>
      [] cell.t = "int"  -> IF cell.n < 0 THEN <<"-">> \o Digits(0 - cell.n) ELSE Digits(cell.n)
      [] cell.t = "str"  -> cell.s

----------------------------------------------------------------------------
(* run_sql_query: rendering of the cursor result (src/main.py 89-107) *)

NoResultsMsg == "Query executed successfully. No results returned."

MapSeq(Op(_), s) == [i \in 1..Len(s) |-> Op(s[i])]

Dashes(col) == <<"-", "-", "-">>

\* "| " + " | ".join(items) + " |\n"
TableLine(items) == <<PIPE, " ">> \o Join(<<" ", PIPE, " ">>, items) \o <<" ", PIPE, NL>>

RowLine(row) == TableLine(MapSeq(Str, row))

\* lines 99-103: header, separator, then one line per row in result order
FormatTable(columns, rows) ==
    TableLine(columns) \o TableLine(MapSeq(Dashes, columns))
        \o Concat(MapSeq(RowLine, rows))

\* a rendering that draws the header and the separator whenever there is a
\* description, whether or not there are rows
RenderResultHeaderOnly(description, rows) ==
    IF description # <<>>
    THEN [msg |-> "table", table |-> FormatTable(description, rows)]
    ELSE [msg |-> NoResultsMsg, table |-> <<>>]

\* lines 89-107. description <<>> stands for a description that is None or
\* empty: both are falsy at line 89.
RenderResult(description, rows) ==
    IF description # <<>>
    THEN IF rows = <<>>
         THEN [msg |-> NoResultsMsg, table |-> <<>>]
         ELSE [msg |-> "table", table |-> FormatTable(description, rows)]
    ELSE [msg |-> NoResultsMsg, table |-> <<>>]

\* Reading a returned table back: its lines, and the cells of a line
RECURSIVE SplitOn(_, _)
SplitOn(text, c) ==
    IF \A i \in 1..Len(text) : text[i] # c THEN <<text>>
    ELSE LET k == CHOOSE i \in 1..Len(text) :
                     text[i] = c /\ \A j \in 1..(i - 1) : text[j] # c
         IN <<SubSeq(text, 1, k - 1)>> \o SplitOn(SubSeq(text, k + 1, Len(text)), c)

\* the lines of a text, a final newline ending the last line
Lines(text) ==
    LET parts == SplitOn(text, NL)
    IN IF parts[Len(parts)] = <<>> THEN SubSeq(parts, 1, Len(parts) - 1) ELSE parts

\* the cells of a markdown table line "| a | b |": what lies between the pipes
Cells(line) ==
    LET parts == SplitOn(line, PIPE)
    IN SubSeq(parts, 2, Len(parts) - 1)

\* Inputs of the rendering check
ColumnNames == {<<"c">>, <<"a", PIPE, "b">>}
CellValues == {IntCell(10), StrCell(<<"x", PIPE, "y">>), StrCell(<<"l", NL, "m">>)}

\* rows of m cells: one value in every cell, or two values alternating
RowsOf(m) ==
    {[i \in 1..m |-> IF i % 2 = 1 THEN v ELSE w] : v \in CellValues, w \in CellValues}

TableInputs ==
    {[description |-> d, rows |-> r] :
        d \in SeqsUpTo(ColumnNames, MaxCols), r \in {<<>>}} \cup
    UNION {{[description |-> d, rows |-> r] : r \in SeqsUpTo(RowsOf(Len(d)), MaxRows)} :
        d \in SeqsUpTo(ColumnNames, MaxCols) \ {<<>>}}


----------------------------------------------------------------------------
(* Configuration (src/main.py 16-18): os.getenv gives None for a variable   *)
(* that is not set; TRUE stands for a non-empty value, FALSE for None (an   *)
(* empty string is falsy in all([...]) exactly as None is).                 *)

Configs == [host : BOOLEAN, token : BOOLEAN, path : BOOLEAN]

MissingConnMsg == "Missing required Databricks connection details in .env file"
MissingApiMsg == "Missing required Databricks API credentials in .env file"

\* line 27: all([DATABRICKS_HOST, DATABRICKS_TOKEN, DATABRICKS_HTTP_PATH])
SqlConfigured(c) == c.host /\ c.token /\ c.path

\* line 39: all([DATABRICKS_HOST, DATABRICKS_TOKEN])
ApiConfigured(c) == c.host /\ c.token

----------------------------------------------------------------------------
(* Exceptions, return values and the log of remote requests *)

\* an exception e, as far as str(e) shows it
Exc(type, text, status, path, q) ==
    [exc |-> type, text |-> text, status |-> status, path |-> path, q |-> q]

NoExc == Exc("none", "", 0, "", <<>>)
ValueError(text) == Exc("ValueError", text, 0, "", <<>>)

\* what the host gets from an invocation: a returned string (msg followed by
\* str(detail), or a rendered table), or an exception that left the handler
Returned(msg, detail, table) ==
    [kind |-> "string", msg |-> msg, detail |-> detail, table |-> table]
Raised(detail) ==
    [kind |-> "raised", msg |-> "", detail |-> detail, table |-> <<>>]
NoOut == [kind |-> "none", msg |-> "", detail |-> NoExc, table |-> <<>>]

\* one remote request: kind is "connect", "statement", "http" or "curl"
\* status is the status of the answer and answer the body that came with it
\* (<<>> where the log does not keep it)
\* via says how the caller's data travels: "params", "json", "url" or ""
Call(kind, method, path, q, via, data, status) ==
    [kind |-> kind, method |-> method, path |-> path, q |-> q, via |-> via,
     data |-> data, status |-> status, target |-> <<>>, payload |-> <<>>,
     answer |-> <<>>]

\* the same request with the text of its path argument and of its data
Carrying(call, target, payload) ==
    [call EXCEPT !.target = target, !.payload = payload]

SqlCall(kind, status) == Call(kind, "", "", <<>>, "", <<>>, status)

\* status of a request that got no HTTP answer at all
NoAnswer == 0
Ok2xx(status) == status >= 200 /\ status < 300

----------------------------------------------------------------------------
(* The SQL handlers get_schema and run_sql_query (src/main.py 59-112) *)

SqlHandlers == {"get_schema", "run_sql_query"}

\* read_dbfs_file(path, length=1000), line 590
DefaultReadLength == 1000

\* the arguments of an invocation: job_id (has_job_id: it is not None), and
\* for create_job and get_cluster_details whether each argument is truthy
NoArg == [job_id |-> 0, has_job_id |-> FALSE, cluster_id |-> FALSE,
          new_cluster |-> FALSE, notebook_path |-> FALSE,
          spark_jar_task |-> FALSE, spark_python_task |-> FALSE, format |-> "",
          method |-> "", content |-> <<>>, path |-> <<>>, overwrite |-> FALSE,
          length |-> 0, schedule |-> FALSE, timeout_seconds |-> FALSE,
          max_concurrent_runs |-> FALSE, max_retries |-> FALSE]

\* results a statement can give run_sql_query in the handler model
SampleResults ==
    {[description |-> <<>>, rows |-> <<>>],
     [description |-> <<<<"c">>>>, rows |-> <<>>],
     [description |-> <<<<"c">>>>, rows |-> <<<<IntCell(1)>>>>]}

\* table listings cursor.tables().fetchall() can give get_schema: the number
\* of tables listed
SampleTables == {0, 2}

NoResult == [description |-> <<>>, rows |-> <<>>]

\* bad: a statement on the connection has failed
NewConn(owner) ==
    [state |-> "open", stmts |-> 0, closes |-> 0, owner |-> owner, bad |-> FALSE]

\* an acquisition that tries connect() again when it fails
GetDatabricksConnectionAgain(c, connected) ==
    IF ~SqlConfigured(c)
    THEN [raised |-> ValueError(MissingConnMsg), calls |-> <<>>, opened |-> FALSE]
    ELSE [raised |-> NoExc,
          calls |-> IF connected THEN <<SqlCall("connect", 200)>>
                    ELSE <<SqlCall("connect", NoAnswer), SqlCall("connect", 200)>>,
          opened |-> TRUE]

\* get_databricks_connection (lines 25-34): the configuration check, then an
\* unconditional connect(); connected says whether connect() succeeded.
\* Gives the exception raised (NoExc if none) and the requests attempted.
GetDatabricksConnection(c, connected) ==
    IF ~SqlConfigured(c)
    THEN [raised |-> ValueError(MissingConnMsg), calls |-> <<>>, opened |-> FALSE]
    ELSE IF connected
    THEN [raised |-> NoExc,
          calls |-> <<SqlCall("connect", 200)>>, opened |-> TRUE]
    ELSE [raised |-> Exc("Error", "connect failed", 0, "", <<>>),
          calls |-> <<SqlCall("connect", NoAnswer)>>, opened |-> FALSE]

\* an acquisition that keeps the first connection and hands it out again
SqlAcquireCached(h, connected) ==
    /\ pc = "idle"
    /\ nInv < MaxInvocations
    /\ handler' = h
    /\ arg' = NoArg
    /\ nInv' = nInv + 1
    /\ out' = NoOut
    /\ pc' = "connected"
    /\ failed' = failed
    /\ result' = NoResult
    /\ IF conns = <<>>
       THEN /\ conns' = <<NewConn(nInv + 1)>>
            /\ calls' = <<SqlCall("connect", 200)>>
       ELSE /\ conns' = conns
            /\ calls' = <<>>
    /\ conn' = 1
    /\ UNCHANGED <<cfg, dbfs, io>>

\* lines 62 and 82: conn = get_databricks_connection(), before the try block:
\* what it raises leaves the handler
SqlAcquire(h, connected) ==
    /\ pc = "idle"
    /\ nInv < MaxInvocations
    /\ LET r == GetDatabricksConnection(cfg, connected)
       IN /\ handler' = h
          /\ arg' = NoArg
          /\ nInv' = nInv + 1
          /\ calls' = r.calls
          /\ IF r.opened
             THEN /\ conns' = Append(conns, NewConn(nInv + 1))
                  /\ conn' = Len(conns) + 1
                  /\ pc' = "connected"
                  /\ out' = NoOut
                  /\ failed' = failed
             ELSE /\ conns' = conns
                  /\ conn' = 0
                  /\ pc' = "idle"
                  /\ out' = Raised(r.raised)
                  /\ failed' = (failed \/ r.calls # <<>>)
    /\ result' = NoResult
    /\ UNCHANGED <<cfg, dbfs, io>>

\* a finally block that leaves the connection open
UseAndLeaveOpen(cs, k) == [cs EXCEPT ![k].stmts = @ + 1]

\* the statement of the handler on its connection, then the finally block
\* (lines 74-76, 110-112): conn.close()
UseAndClose(cs, k) ==
    [cs EXCEPT ![k].stmts = @ + 1, ![k].closes = @ + 1, ![k].state = "closed"]

SqlError == Exc("Error", "statement failed", 0, "", <<>>)

\* run_sql_query, lines 85-112, given how the statement ended
RunSqlQueryBody(ok, res) ==
    IF ok
    THEN LET r == RenderResult(res.description, res.rows)
         IN Returned(r.msg, NoExc, r.table)
    ELSE Returned("Error executing query: ", SqlError, <<>>)

\* get_schema, lines 63-76: one line per table, joined by newlines
GetSchemaBody(ok, ntables) ==
    IF ok
    THEN Returned("schema", NoExc, [i \in 1..ntables |-> "Database: , Schema: , Table: "])
    ELSE Returned("Error retrieving tables: ", SqlError, <<>>)

\* a handler that closes its connection on the paths without an exception only
SqlRunClosingOnSuccess(ok, results) ==
    /\ pc = "connected"
    /\ \E res \in (IF ok /\ handler = "run_sql_query" THEN results ELSE {NoResult}),
          ntables \in (IF ok /\ handler = "get_schema" THEN SampleTables ELSE {0}) :
          /\ out' = IF handler = "run_sql_query"
                    THEN RunSqlQueryBody(ok, res)
                    ELSE GetSchemaBody(ok, ntables)
          /\ result' = res
    /\ calls' = Append(calls, SqlCall("statement", IF ok THEN 200 ELSE NoAnswer))
    /\ conns' = IF ok THEN [UseAndClose(conns, conn) EXCEPT ![conn].bad = FALSE]
                ELSE [UseAndLeaveOpen(conns, conn) EXCEPT ![conn].bad = TRUE]
    /\ failed' = (failed \/ ~ok)
    /\ conn' = 0
    /\ pc' = "idle"
    /\ UNCHANGED <<cfg, handler, arg, nInv, dbfs, io>>

\* the statement of the running handler, answered by the warehouse with an
\* error (ok false) or with a result drawn from results, then the return
SqlRun(ok, results) ==
    /\ pc = "connected"
    /\ \E res \in (IF ok /\ handler = "run_sql_query" THEN results ELSE {NoResult}),
          ntables \in (IF ok /\ handler = "get_schema" THEN SampleTables ELSE {0}) :
          /\ out' = IF handler = "run_sql_query"
                    THEN RunSqlQueryBody(ok, res)
                    ELSE GetSchemaBody(ok, ntables)
          /\ result' = res
    /\ calls' = Append(calls, SqlCall("statement", IF ok THEN 200 ELSE NoAnswer))
    /\ conns' = [UseAndClose(conns, conn) EXCEPT ![conn].bad = ~ok]
    /\ failed' = (failed \/ ~ok)
    /\ conn' = 0
    /\ pc' = "idle"
    /\ UNCHANGED <<cfg, handler, arg, nInv, dbfs, io>>


----------------------------------------------------------------------------
(* databricks_api_request (src/main.py 37-57) *)

\* str.upper() on the method names used here
Upper(m) ==
    CASE m \in {"GET", "get", "Get"} -> "GET"
      [] m \in {"POST", "post", "pOsT"} -> "POST"
      [] m \in {"PUT", "put"} -> "PUT"
      [] m \in {"DELETE", "delete"} -> "DELETE"
      [] m = "" -> ""

Methods == {"GET", "get", "Get", "POST", "post", "pOsT", "PUT", "put",
            "DELETE", "delete", ""}

\* an endpoint: the path under /api/2.0/ and what the caller interpolated
\* after "?", a sequence of <<key, value>> pairs
Endpoint(path, q) == [path |-> path, q |-> q]

\* what the remote does with one request: status NoAnswer for a connection
\* failure, else the HTTP status and the body
NotJson == [shape |-> "notjson", items |-> 0 - 1, id |-> 0, data |-> <<>>,
            list |-> <<>>, next |-> "", prev |-> ""]
NotDict == [shape |-> "notdict", items |-> 0 - 1, id |-> 0, data |-> <<>>,
            list |-> <<>>, next |-> "", prev |-> ""]
Dict(items, id) ==
    [shape |-> "dict", items |-> items, id |-> id, data |-> <<>>,
     list |-> [i \in 1..items |-> <<"x", Digit(i)>>], next |-> "", prev |-> ""]

\* a listing whose items carry the given names (job name, cluster name, path,
\* catalog name), and a page of a listing with its page tokens ("": none)
Listing(names) == [Dict(Len(names), 0) EXCEPT !.list = names]
Page(items, next, prev) == [Dict(items, 0) EXCEPT !.next = next, !.prev = prev]

\* items: -1 when the list key is absent, else the number of items listed,
\* list: the name each item carries;
\* id: 0 when the identifier key is absent, else the identifier; data: the
\* base64 text of a dbfs/read answer
\* for the catalog tools the identifier is the name: RequestedName is the name
\* the caller asked for, OtherName any other name (the remote's spelling of it)
NewId == 5
OtherName == 6
RequestedName == NewId
Absent == 0 - 1
Bodies == {NotJson, NotDict, Dict(Absent, 0), Dict(0, 0), Dict(2, NewId),
           Dict(2, OtherName), Listing(<<<<"l", NL, "m">>>>)}

\* pages of jobs/runs/list
Pages == {Page(2, "tokN", ""), Page(2, "", "tokP"), Page(2, "tokN", "tokP"),
          Page(0, "tokN", "")}

Answer(status, body) == [status |-> status, body |-> body]

\* a request of the log with the body of its answer
Answered(call, ans) == [call EXCEPT !.answer = <<ans.body>>]

\* an error status comes with an error document or with no JSON at all
Answers == {Answer(NoAnswer, NotJson), Answer(404, NotJson),
            Answer(404, Dict(Absent, 0)), Answer(500, NotJson)}
           \cup {Answer(200, b) : b \in Bodies}

\* requests' HTTPError, whose text is
\* "<status> Client Error: <reason> for url: <url>": the status and the final
\* URL, which for params= carries the data after the endpoint's own query
HTTPError(status, endpoint, via, data) ==
    Exc("HTTPError", "Client Error for url", status, endpoint.path,
        endpoint.q \o (IF via = "params" THEN data ELSE <<>>))

ConnectionError == Exc("ConnectionError", "connection failed", 0, "", <<>>)
JSONDecodeError == Exc("JSONDecodeError", "not JSON", 0, "", <<>>)
AttributeError == Exc("AttributeError", "unexpected shape", 0, "", <<>>)

\* requests.get/post followed by response.raise_for_status(): the exception
\* raised, NoExc if the answer is a 2xx
RaiseForStatus(endpoint, via, data, ans) ==
    IF ans.status = NoAnswer THEN ConnectionError
    ELSE IF ~Ok2xx(ans.status) THEN HTTPError(ans.status, endpoint, via, data)
    ELSE NoExc

\* lines 56-57 (and the same two calls in the tools that use requests
\* themselves): raise_for_status(), then response.json()
Received(endpoint, via, data, ans) ==
    LET e == RaiseForStatus(endpoint, via, data, ans)
    IN IF e # NoExc THEN [raised |-> e, json |-> NotJson]
       ELSE IF ans.body.shape = "notjson"
       THEN [raised |-> JSONDecodeError, json |-> NotJson]
       ELSE [raised |-> NoExc, json |-> ans.body]

UnsupportedMethodMsg == "Unsupported HTTP method: "

\* a dispatch that sends the data of a GET as a JSON body
DispatchBodyForGet(method) ==
    IF Upper(method) \in {"GET", "POST"} THEN "json" ELSE ""

\* the method dispatch of lines 49-54: how the data is sent, "" if not at all
Dispatch(method) ==
    IF Upper(method) = "GET" THEN "params"
    ELSE IF Upper(method) = "POST" THEN "json"
    ELSE ""

\* a helper that looks at the method before it looks at the credentials
DatabricksApiRequestMethodFirst(c, endpoint, method, data, ans) ==
    IF Dispatch(method) = ""
    THEN [raised |-> ValueError(UnsupportedMethodMsg), json |-> NotJson, calls |-> <<>>]
    ELSE IF ~ApiConfigured(c)
    THEN [raised |-> ValueError(MissingApiMsg), json |-> NotJson, calls |-> <<>>]
    ELSE LET r == Received(endpoint, Dispatch(method), data, ans)
         IN [raised |-> r.raised, json |-> r.json,
             calls |-> <<Answered(Call("http", Upper(method), endpoint.path, endpoint.q,
                                       Dispatch(method), data, ans.status), ans)>>]

\* a helper that sends the request a second time when the first attempt fails
DatabricksApiRequestRetry(c, endpoint, method, data, ans) ==
    IF ~ApiConfigured(c)
    THEN [raised |-> ValueError(MissingApiMsg), json |-> NotJson, calls |-> <<>>]
    ELSE IF Dispatch(method) = ""
    THEN [raised |-> ValueError(UnsupportedMethodMsg), json |-> NotJson, calls |-> <<>>]
    ELSE LET r == Received(endpoint, Dispatch(method), data, ans)
             call == Answered(Call("http", Upper(method), endpoint.path, endpoint.q,
                                   Dispatch(method), data, ans.status), ans)
         IN [raised |-> r.raised, json |-> r.json,
             calls |-> IF Ok2xx(ans.status) THEN <<call>> ELSE <<call, call>>]

\* the whole helper: the exception raised (NoExc if none), the decoded JSON,
\* and the requests sent
DatabricksApiRequest(c, endpoint, method, data, ans) ==
    IF ~ApiConfigured(c)
    THEN [raised |-> ValueError(MissingApiMsg), json |-> NotJson, calls |-> <<>>]
    ELSE IF Dispatch(method) = ""
    THEN [raised |-> ValueError(UnsupportedMethodMsg), json |-> NotJson, calls |-> <<>>]
    ELSE LET r == Received(endpoint, Dispatch(method), data, ans)
         IN [raised |-> r.raised, json |-> r.json,
             calls |-> <<Answered(Call("http", Upper(method), endpoint.path, endpoint.q,
                                       Dispatch(method), data, ans.status), ans)>>]


----------------------------------------------------------------------------
(* The tools that go through databricks_api_request *)

ListHandlers == {"list_jobs", "get_job_status", "list_job_runs", "list_clusters",
                 "list_instance_pools", "list_catalogs"}
DetailHandlers == {"get_job_details", "get_cluster_details"}
CreateHandlers == {"create_job", "create_instance_pool", "create_catalog",
                   "create_schema"}
ApiHandlers == ListHandlers \cup DetailHandlers \cup CreateHandlers

JobIds == {0 - 1, 0, 7}

JobArg(id) == [NoArg EXCEPT !.job_id = id, !.has_job_id = TRUE]

\* the arguments each tool is tried with
ArgsOf(h) ==
    CASE h \in {"get_job_status", "get_job_details"} -> {JobArg(id) : id \in JobIds}
      [] h = "list_job_runs" -> {NoArg} \cup {JobArg(id) : id \in JobIds}
      [] h = "get_cluster_details" -> {[NoArg EXCEPT !.cluster_id = TRUE]}
      [] h = "create_job" ->
            {[NoArg EXCEPT !.cluster_id = c, !.new_cluster = n, !.notebook_path = t,
                           !.spark_jar_task = j, !.spark_python_task = y] :
                c \in BOOLEAN, n \in BOOLEAN, t \in BOOLEAN, j \in BOOLEAN, y \in BOOLEAN}
      [] h = "export_notebook" -> {[NoArg EXCEPT !.format = f] : f \in {"SOURCE", "HTML"}}
      [] h = "read_dbfs_file" -> {[NoArg EXCEPT !.path = <<"/", "a">>, !.length = DefaultReadLength]}
      [] h = "upload_to_dbfs" -> {[NoArg EXCEPT !.path = <<"/", "a">>, !.content = <<"a">>]}
      [] OTHER -> {NoArg}

\* the endpoint without the identifier
JobDetailsEndpointNoId(job_id) == Endpoint("jobs/get", <<>>)

\* line 262: f"jobs/get?job_id={job_id}"
JobDetailsEndpoint(job_id) == Endpoint("jobs/get", <<<<"job_id", job_id>>>>)

\* the endpoint each tool asks for (lines 118, 207, 223, 262, 345, 409, 438,
\* 467, 526, 851, 896, 930)
ApiEndpoint(h, a) ==
    CASE h = "list_jobs" -> Endpoint("jobs/list", <<>>)
      [] h = "create_job" -> Endpoint("jobs/create", <<>>)
      [] h = "get_job_status" -> Endpoint("jobs/runs/list", <<>>)
      [] h = "get_job_details" -> JobDetailsEndpoint(a.job_id)
      [] h = "list_job_runs" -> Endpoint("jobs/runs/list", <<>>)
      [] h = "list_clusters" -> Endpoint("clusters/list", <<>>)
      [] h = "get_cluster_details" -> Endpoint("clusters/get", <<<<"cluster_id", 1>>>>)
      [] h = "list_instance_pools" -> Endpoint("instance-pools/list", <<>>)
      [] h = "create_instance_pool" -> Endpoint("instance-pools/create", <<>>)
      [] h = "list_catalogs" -> Endpoint("unity-catalog/catalogs", <<>>)
      [] h = "create_catalog" -> Endpoint("unity-catalog/catalogs", <<>>)
      [] h = "create_schema" -> Endpoint("unity-catalog/schemas", <<>>)

ApiMethod(h) == IF h \in CreateHandlers THEN "POST" ELSE "GET"

\* settings that take every task the caller gave
SettingsEveryTask(a) ==
    <<"name">>
        \o (IF a.cluster_id THEN <<"existing_cluster_id">>
            ELSE IF a.new_cluster THEN <<"new_cluster">> ELSE <<>>)
        \o (IF a.notebook_path THEN <<"notebook_task">> ELSE <<>>)
        \o (IF a.spark_jar_task THEN <<"spark_jar_task">> ELSE <<>>)
        \o (IF a.spark_python_task THEN <<"spark_python_task">> ELSE <<>>)
        \o (IF a.schedule THEN <<"schedule">> ELSE <<>>)
        \o (IF a.timeout_seconds THEN <<"timeout_seconds">> ELSE <<>>)
        \o (IF a.max_concurrent_runs THEN <<"max_concurrent_runs">> ELSE <<>>)
        \o (IF a.max_retries THEN <<"max_retries">> ELSE <<>>)

\* create_job, lines 168-204: the keys of the settings, in the order they
\* are set
Settings(a) ==
    <<"name">>
        \o (IF a.cluster_id THEN <<"existing_cluster_id">>
            ELSE IF a.new_cluster THEN <<"new_cluster">> ELSE <<>>)
        \o (IF a.notebook_path THEN <<"notebook_task">>
            ELSE IF a.spark_jar_task THEN <<"spark_jar_task">>
            ELSE IF a.spark_python_task THEN <<"spark_python_task">> ELSE <<>>)
        \o (IF a.schedule THEN <<"schedule">> ELSE <<>>)
        \o (IF a.timeout_seconds THEN <<"timeout_seconds">> ELSE <<>>)
        \o (IF a.max_concurrent_runs THEN <<"max_concurrent_runs">> ELSE <<>>)
        \o (IF a.max_retries THEN <<"max_retries">> ELSE <<>>)

\* the data each tool passes (values other than job_id stand as 1); the
\* settings of create_job are the pairs <<"settings", key>>
ApiData(h, a) ==
    CASE h = "get_job_status" -> <<<<"job_id", a.job_id>>>>
      [] h = "list_job_runs" -> IF a.has_job_id THEN <<<<"job_id", a.job_id>>>> ELSE <<>>
      [] h = "create_job" ->
            <<<<"name", 1>>>> \o [i \in 1..Len(Settings(a)) |-> <<"settings", Settings(a)[i]>>]
      [] h = "create_instance_pool" -> <<<<"instance_pool_name", 1>>, <<"node_type_id", 1>>>>
      [] h = "create_catalog" -> <<<<"name", RequestedName>>>>
      [] h = "create_schema" -> <<<<"name", RequestedName>>, <<"catalog_name", 1>>>>
      [] OTHER -> <<>>

\* the text before str(e) in each tool's except block
ErrorPrefix(h) ==
    CASE h = "list_jobs" -> "Error listing jobs: "
      [] h = "create_job" -> "Error creating job: "
      [] h = "get_job_status" -> "Error getting job status: "
      [] h = "get_job_details" -> "Error getting job details: "
      [] h = "list_job_runs" -> "Error listing job runs: "
      [] h = "list_clusters" -> "Error listing clusters: "
      [] h = "get_cluster_details" -> "Error getting cluster details: "
      [] h = "list_instance_pools" -> "Error listing instance pools: "
      [] h = "create_instance_pool" -> "Error creating instance pool: "
      [] h = "list_dbfs_files" -> "Error listing DBFS files: "
      [] h = "read_dbfs_file" -> "Error reading DBFS file: "
      [] h = "upload_to_dbfs" -> "Error uploading to DBFS: "
      [] h = "list_workspace" -> "Error listing workspace: "
      [] h = "export_notebook" -> "Error exporting notebook: "
      [] h = "import_notebook" -> "Error importing notebook: "
      [] h = "list_catalogs" -> "Error listing catalogs: "
      [] h = "create_catalog" -> "Error creating catalog: "
      [] h = "create_schema" -> "Error creating schema: "

\* the "nothing listed" sentence of each list tool
Sentinel(h, a) ==
    CASE h = "list_jobs" -> "No jobs found."
      [] h = "get_job_status" -> "No runs found for job ID {job_id}."
      [] h = "list_job_runs" ->
            IF a.has_job_id /\ a.job_id # 0 THEN "No runs found for job ID {job_id}."
            ELSE "No job runs found."
      [] h = "list_clusters" -> "No clusters found."
      [] h = "list_instance_pools" -> "No instance pools found."
      [] h = "list_dbfs_files" -> "No files found in {path}."
      [] h = "list_workspace" -> "No objects found in {path}."
      [] h = "list_catalogs" -> "No catalogs found."

\* the number of columns of each list tool's table
NCols(h) ==
    CASE h = "list_jobs" -> 3
      [] h = "get_job_status" -> 5
      [] h = "list_job_runs" -> 7
      [] h = "list_clusters" -> 5
      [] h = "list_instance_pools" -> 6
      [] h = "list_dbfs_files" -> 3
      [] h = "list_workspace" -> 3
      [] h = "list_catalogs" -> 4

\* f"| {a} | {b} | {c} |\n" for one item: its name, the other cells "N/A"
ItemLine(h, name) ==
    TableLine([i \in 1..NCols(h) |-> IF i = 1 THEN name ELSE <<"N/A">>])

\* header line, separator line, then one line per item in response order
ListTable(h, list) ==
    TableLine([i \in 1..NCols(h) |-> <<"Column">>])
        \o TableLine([i \in 1..NCols(h) |-> <<"---">>])
        \o Concat([i \in 1..Len(list) |-> ItemLine(h, list[i])])

\* a pagination section that names the next page only
PaginationNextOnly(json) ==
    IF json.next = "" THEN <<>>
    ELSE <<NL, "### Pagination", NL,
           "More results available. Use page_token='", json.next,
           "' to view the next page.", NL>>

\* list_job_runs, lines 388-398: the pagination section after the table
Pagination(json) ==
    IF json.next = "" /\ json.prev = "" THEN <<>>
    ELSE <<NL, "### Pagination", NL>>
         \o (IF json.next # ""
             THEN <<"More results available. Use page_token='", json.next,
                    "' to view the next page.", NL>>
             ELSE <<>>)
         \o (IF json.prev # ""
             THEN <<"Use page_token='", json.prev, "' to view the previous page.", NL>>
             ELSE <<>>)

\* a list tool on a decoded answer: response.get(key) on something that is
\* no dict raises, and the except block renders it
ListOut(h, a, json) ==
    IF json.shape # "dict" THEN Returned(ErrorPrefix(h), AttributeError, <<>>)
    ELSE IF json.items <= 0 THEN Returned(Sentinel(h, a), NoExc, <<>>)
    ELSE Returned("table", NoExc,
                  ListTable(h, json.list)
                      \o (IF h = "list_job_runs" THEN Pagination(json) ELSE <<>>))

\* get_job_details (265-292) and get_cluster_details (440-458)
DetailOut(h, a, json) ==
    IF json.shape # "dict" THEN Returned(ErrorPrefix(h), AttributeError, <<>>)
    ELSE Returned(IF h = "get_job_details" THEN "## Job Details: "
                  ELSE "## Cluster Details", NoExc, <<>>)

CreatedMsg(h) ==
    CASE h = "create_job" -> "Job created successfully with job ID: "
      [] h = "create_instance_pool" -> "Instance pool created successfully with ID: "
      [] h = "create_catalog" -> "Catalog '{name}' was created successfully."
      [] h = "create_schema" -> "Schema '{catalog_name}.{schema_name}' was created successfully."

NotCreatedMsg(h) ==
    CASE h = "create_job" -> "Job creation failed. No job ID returned."
      [] h = "create_instance_pool" -> "Instance pool creation failed. No pool ID returned."
      [] h = "create_catalog" ->
            "Catalog creation might have failed. Please check with list_catalogs()."
      [] h = "create_schema" ->
            "Schema creation might have failed. Please check using another Unity Catalog API call."

\* lines 210-215 and 529-534: the identifier of the answer is truthy;
\* lines 899-902 and 933-936: the name of the answer equals the name asked for
CreateOut(h, a, json) ==
    IF json.shape # "dict" THEN Returned(ErrorPrefix(h), AttributeError, <<>>)
    ELSE IF h \in {"create_catalog", "create_schema"}
    THEN IF json.id = RequestedName THEN Returned(CreatedMsg(h), NoExc, <<>>)
         ELSE Returned(NotCreatedMsg(h), NoExc, <<>>)
    ELSE IF json.id # 0 THEN Returned(CreatedMsg(h), NoExc, <<>>)
    ELSE Returned(NotCreatedMsg(h), NoExc, <<>>)

OnSuccess(h, a, json) ==
    IF h \in ListHandlers THEN ListOut(h, a, json)
    ELSE IF h \in DetailHandlers THEN DetailOut(h, a, json)
    ELSE CreateOut(h, a, json)

NoClusterMsg == "Error: Either cluster_id or new_cluster must be specified."
NoTaskMsg ==
    "Error: You must specify a task type (notebook_path, spark_jar_task, or spark_python_task)."

\* argument checks that ask for a cluster only
ArgErrorClusterOnly(h, a) ==
    IF h # "create_job" THEN ""
    ELSE IF ~a.cluster_id /\ ~a.new_cluster THEN NoClusterMsg
    ELSE ""

\* create_job, lines 173-194: the argument checks that return before any request
ArgError(h, a) ==
    IF h # "create_job" THEN ""
    ELSE IF ~a.cluster_id /\ ~a.new_cluster THEN NoClusterMsg
    ELSE IF ~a.notebook_path /\ ~a.spark_jar_task /\ ~a.spark_python_task THEN NoTaskMsg
    ELSE ""

\* the category of an exception in the taxonomy configuration / transport /
\* malformed response / unexpected
Category(e) ==
    CASE e.exc = "ValueError" /\ e.text \in {MissingConnMsg, MissingApiMsg} -> "configuration"
      [] e.exc \in {"ConnectionError", "HTTPError"} -> "transport"
      [] e.exc = "ValueError" /\ e.text = "Command failed with exit code" -> "transport"
      [] e.exc \in {"JSONDecodeError", "AttributeError", "binascii.Error",
                    "UnicodeDecodeError"} -> "malformed"
      [] e.exc = "ValueError" /\ e.text = "Failed to parse response as JSON: " -> "malformed"
      [] OTHER -> "unexpected"

\* a tool whose except block names the category of the error
ApiToolByCategory(h, a, c, ans) ==
    IF ArgError(h, a) # ""
    THEN [calls |-> <<>>, out |-> Returned(ArgError(h, a), NoExc, <<>>)]
    ELSE LET r == DatabricksApiRequest(c, ApiEndpoint(h, a), ApiMethod(h), ApiData(h, a), ans)
         IN [calls |-> r.calls,
             out |-> IF r.raised # NoExc THEN Returned(Category(r.raised), r.raised, <<>>)
                     ELSE OnSuccess(h, a, r.json)]

\* a tool that refuses an identifier that is not positive before any request
ApiToolValidating(h, a, c, ans) ==
    IF ArgError(h, a) # ""
    THEN [calls |-> <<>>, out |-> Returned(ArgError(h, a), NoExc, <<>>)]
    ELSE IF a.has_job_id /\ a.job_id <= 0
    THEN [calls |-> <<>>, out |-> Returned(ErrorPrefix(h), ValueError("job_id must be positive"), <<>>)]
    ELSE LET r == DatabricksApiRequest(c, ApiEndpoint(h, a), ApiMethod(h), ApiData(h, a), ans)
         IN [calls |-> r.calls,
             out |-> IF r.raised # NoExc THEN Returned(ErrorPrefix(h), r.raised, <<>>)
                     ELSE OnSuccess(h, a, r.json)]

\* a tool's try block around one databricks_api_request call: the requests
\* sent and the string returned
ApiTool(h, a, c, ans) ==
    IF ArgError(h, a) # ""
    THEN [calls |-> <<>>, out |-> Returned(ArgError(h, a), NoExc, <<>>)]
    ELSE LET r == DatabricksApiRequest(c, ApiEndpoint(h, a), ApiMethod(h), ApiData(h, a), ans)
         IN [calls |-> r.calls,
             out |-> IF r.raised # NoExc THEN Returned(ErrorPrefix(h), r.raised, <<>>)
                     ELSE OnSuccess(h, a, r.json)]

\* an invocation that clears the module's token when it returns an error
ReturnsClearingToken(h, a, r) ==
    /\ pc = "idle"
    /\ nInv < MaxInvocations
    /\ handler' = h
    /\ arg' = a
    /\ calls' = r.calls
    /\ out' = r.out
    /\ result' = NoResult
    /\ cfg' = IF r.out.detail # NoExc THEN [cfg EXCEPT !.token = FALSE] ELSE cfg
    /\ UNCHANGED <<pc, conn, conns, nInv, failed>>

\* the host invokes a tool; the invocation runs to its return. A run is
\* followed until its last SQL invocation has started.
Returns(h, a, r) ==
    /\ pc = "idle"
    /\ nInv < MaxInvocations
    /\ handler' = h
    /\ arg' = a
    /\ calls' = r.calls
    /\ out' = r.out
    /\ result' = NoResult
    /\ UNCHANGED <<cfg, pc, conn, conns, nInv, failed>>

Finish(h, a, r) == Returns(h, a, r) /\ UNCHANGED <<dbfs, io>>

\* the remote answers only the requests that are sent
AnswersIf(sent) == IF sent THEN Answers ELSE {Answer(NoAnswer, NotJson)}

\* the answers to a tool's request: jobs/runs/list also answers with pages
AnswersTo(h, sent) ==
    IF sent /\ h \in {"get_job_status", "list_job_runs"}
    THEN Answers \cup {Answer(200, b) : b \in Pages}
    ELSE AnswersIf(sent)

\* answers to a request whose body the caller does not read
StatusAnswers == {Answer(st, NotJson) : st \in {NoAnswer, 200, 404, 500}}
StatusAnswersIf(sent) == IF sent THEN StatusAnswers ELSE {Answer(NoAnswer, NotJson)}

InvokeApiTool(h) ==
    \E a \in ArgsOf(h) :
        \E ans \in AnswersTo(h, ApiConfigured(cfg) /\ ArgError(h, a) = "") :
            Finish(h, a, ApiTool(h, a, cfg, ans))


----------------------------------------------------------------------------
(* Encodings used by the DBFS tools: UTF-8, base64, URL quoting *)

\* the text alphabet: the letter a and e-acute (U+00E9), written here as e'
EAcute == "e'"
TextChars == {"a", EAcute}

\* str.encode('utf-8'): "a" is the byte 97, e-acute (U+00E9) the bytes 195 169
FirstByte(ch) == IF ch = "a" THEN 97 ELSE 195
SecondByte(ch) == IF ch = "a" THEN 0 ELSE 169

Utf8Encode(text) ==
    LET slots == [k \in 1..(2 * Len(text)) |->
                    IF k % 2 = 1 THEN FirstByte(text[(k + 1) \div 2])
                    ELSE SecondByte(text[k \div 2])]
    IN SelectSeq(slots, LAMBDA b : b # 0)

\* bytes.decode('utf-8') of bytes among 0..127, 169 and 195: ok is false where
\* Python raises UnicodeDecodeError (a lead byte without its continuation
\* byte, or a continuation byte without its lead)
Utf8Decode(bytes) ==
    LET n == Len(bytes)
        valid == \A k \in 1..n :
                    /\ bytes[k] = 195 => (k < n /\ bytes[k + 1] = 169)
                    /\ bytes[k] = 169 => (k > 1 /\ bytes[k - 1] = 195)
                    /\ bytes[k] \in (0..127) \cup {169, 195}
        starts == SelectSeq([k \in 1..n |-> k], LAMBDA k : bytes[k] # 169)
    IN IF ~valid THEN [ok |-> FALSE, text |-> <<>>]
       ELSE [ok |-> TRUE,
             text |-> [i \in 1..Len(starts) |->
                          IF bytes[starts[i]] = 195 THEN EAcute
                          ELSE IF bytes[starts[i]] = 97 THEN "a" ELSE "?"]]

\* base64 text: the 64 digits as their values 0..63, "=" as Pad
Pad == 64

Pow64(k) == CASE k = 0 -> 1 [] k = 1 -> 64 [] k = 2 -> 4096 [] k = 3 -> 262144
Pow256(k) == CASE k = 0 -> 1 [] k = 1 -> 256 [] k = 2 -> 65536

\* base64.b64encode
B64Encode(bytes) ==
    LET n == Len(bytes)
        g == (n + 2) \div 3
        byte(k) == IF k <= n THEN bytes[k] ELSE 0
        group(q) == byte(3 * q + 1) * 65536 + byte(3 * q + 2) * 256 + byte(3 * q + 3)
    IN [i \in 1..(4 * g) |->
           IF i > 4 * g - (3 * g - n) THEN Pad
           ELSE (group((i - 1) \div 4) \div Pow64(3 - ((i - 1) % 4))) % 64]

\* base64.b64decode: ok is false where Python raises binascii.Error
B64Decode(text) ==
    LET m == Len(text)
        npad == IF m >= 2 /\ text[m] = Pad /\ text[m - 1] = Pad THEN 2
                ELSE IF m >= 1 /\ text[m] = Pad THEN 1 ELSE 0
        digit(i) == IF text[i] = Pad THEN 0 ELSE text[i]
        group(q) == digit(4 * q + 1) * 262144 + digit(4 * q + 2) * 4096
                        + digit(4 * q + 3) * 64 + digit(4 * q + 4)
        wellformed == /\ m % 4 = 0
                      /\ \A i \in 1..(m - npad) : text[i] # Pad
    IN IF ~wellformed THEN [ok |-> FALSE, bytes |-> <<>>]
       ELSE [ok |-> TRUE,
             bytes |-> [k \in 1..(3 * (m \div 4) - npad) |->
                           (group((k - 1) \div 3) \div Pow256(2 - ((k - 1) % 3))) % 256]]

\* urllib.parse.quote on paths over "/", "a", "b", " " and "%": "/" and
\* letters stay, a space becomes %20 and a percent sign %25
QuoteChar(ch) ==
    CASE ch = " " -> <<"%", "2", "0">>
      [] ch = "%" -> <<"%", "2", "5">>
      [] OTHER -> <<ch>>

Quote(path) == Concat([i \in 1..Len(path) |-> QuoteChar(path[i])])

\* the percent-decoding the remote applies to a query value
RECURSIVE Unquote(_)
Unquote(text) ==
    IF text = <<>> THEN <<>>
    ELSE IF Len(text) >= 3 /\ SubSeq(text, 1, 3) = <<"%", "2", "0">>
    THEN <<" ">> \o Unquote(SubSeq(text, 4, Len(text)))
    ELSE IF Len(text) >= 3 /\ SubSeq(text, 1, 3) = <<"%", "2", "5">>
    THEN <<"%">> \o Unquote(SubSeq(text, 4, Len(text)))
    ELSE <<Head(text)>> \o Unquote(Tail(text))

UnicodeDecodeError == Exc("UnicodeDecodeError", "invalid utf-8", 0, "", <<>>)
BinasciiError == Exc("binascii.Error", "invalid base64", 0, "", <<>>)

----------------------------------------------------------------------------
(* The tools that check the credentials and call requests (or curl) themselves *)

Http(method, endpoint, via, data, ans) ==
    Answered(Call("http", method, endpoint.path, endpoint.q, via, data, ans.status), ans)

Failure(h, e, cs) == [calls |-> cs, out |-> Returned(ErrorPrefix(h), e, <<>>)]
Success(msg, table, cs) == [calls |-> cs, out |-> Returned(msg, NoExc, table)]

PathQ == <<<<"path", 1>>>>

\* list_workspace, lines 691-731
ListWorkspace(a, c, ans) ==
    LET ep == Endpoint("workspace/list", PathQ)
        cs == <<Http("GET", ep, "url", <<>>, ans)>>
        r == Received(ep, "url", <<>>, ans)
    IN IF ~ApiConfigured(c) THEN Failure("list_workspace", ValueError(MissingApiMsg), <<>>)
       ELSE IF r.raised # NoExc THEN Failure("list_workspace", r.raised, cs)
       ELSE [calls |-> cs, out |-> ListOut("list_workspace", a, r.json)]

\* read_dbfs_file, lines 592-622 (id stands for the "data" key; "data" not in
\* a JSON list is simply true). The decoded content is the table of the result.
ReadDbfsFile(a, c, ans) ==
    LET h == "read_dbfs_file"
        ep == Endpoint("dbfs/read", <<<<"path", 1>>, <<"length", a.length>>>>)
        cs == <<Carrying(Http("GET", ep, "url", <<>>, ans), Quote(a.path), <<>>)>>
        r == Received(ep, "url", <<>>, ans)
        raw == B64Decode(r.json.data)
        dec == Utf8Decode(raw.bytes)
    IN IF ~ApiConfigured(c) THEN Failure(h, ValueError(MissingApiMsg), <<>>)
       ELSE IF r.raised # NoExc THEN Failure(h, r.raised, cs)
       ELSE IF r.json.id = 0 THEN Success("No data found in file {path}.", <<>>, cs)
       ELSE IF ~raw.ok THEN Failure(h, BinasciiError, cs)
       ELSE IF ~dec.ok THEN Failure(h, UnicodeDecodeError, cs)
       ELSE Success("## File Contents: ", dec.text, cs)

\* import_notebook, lines 814-844: the answer is not decoded
ImportNotebook(a, c, ans) ==
    LET ep == Endpoint("workspace/import", <<>>)
        data == <<<<"path", 1>>, <<"content", 1>>, <<"language", 1>>, <<"format", 1>>,
                  <<"overwrite", 1>>>>
        cs == <<Http("POST", ep, "json", data, ans)>>
        e == RaiseForStatus(ep, "json", data, ans)
    IN IF ~ApiConfigured(c) THEN Failure("import_notebook", ValueError(MissingApiMsg), <<>>)
       ELSE IF e # NoExc THEN Failure("import_notebook", e, cs)
       ELSE Success("Notebook successfully imported to {path}", <<>>, cs)

\* list_dbfs_files, lines 542-587: curl -s gives exit code 0 and the body
\* whatever the HTTP status is, and a non-zero exit code without an answer
ListDbfsFiles(a, c, ans) ==
    LET ep == Endpoint("dbfs/list", PathQ)
        cs == <<Answered(Call("curl", "GET", ep.path, ep.q, "url", <<>>, ans.status), ans)>>
    IN IF ~ApiConfigured(c) THEN Failure("list_dbfs_files", ValueError(MissingApiMsg), <<>>)
       ELSE IF ans.status = NoAnswer
       THEN Failure("list_dbfs_files", ValueError("Command failed with exit code"), cs)
       ELSE IF ans.body.shape = "notjson"
       THEN Failure("list_dbfs_files", ValueError("Failed to parse response as JSON: "), cs)
       ELSE [calls |-> cs, out |-> ListOut("list_dbfs_files", a, ans.body)]

NoHandleMsg == "Error: Failed to create a handle for the file upload."
UploadedMsg == "Successfully uploaded content to {dbfs_path}."

\* an upload that reports success whatever the close request was answered
UploadToDbfsIgnoringClose(a, c, created, added, closed) ==
    LET h == "upload_to_dbfs"
        ep1 == Endpoint("dbfs/create", <<>>)
        ep2 == Endpoint("dbfs/add-block", <<>>)
        ep3 == Endpoint("dbfs/close", <<>>)
        d1 == <<<<"path", 1>>, <<"overwrite", IF a.overwrite THEN 1 ELSE 0>>>>
        r1 == Received(ep1, "json", d1, created)
        d2 == <<<<"handle", r1.json.id>>, <<"data", 1>>>>
        d3 == <<<<"handle", r1.json.id>>>>
        c1 == <<Carrying(Http("POST", ep1, "json", d1, created), a.path, <<>>)>>
        c2 == Append(c1, Carrying(Http("POST", ep2, "json", d2, added), <<>>,
                                  B64Encode(Utf8Encode(a.content))))
        c3 == Append(c2, Http("POST", ep3, "json", d3, closed))
        e2 == RaiseForStatus(ep2, "json", d2, added)
        e3 == RaiseForStatus(ep3, "json", d3, closed)
    IN IF ~ApiConfigured(c) THEN Failure(h, ValueError(MissingApiMsg), <<>>)
       ELSE IF r1.raised # NoExc THEN Failure(h, r1.raised, c1)
       ELSE IF r1.json.shape # "dict" THEN Failure(h, AttributeError, c1)
       ELSE IF r1.json.id = 0 THEN Success(NoHandleMsg, <<>>, c1)
       ELSE IF e2 # NoExc THEN Failure(h, e2, c2)
       ELSE Success(UploadedMsg, <<>>, c3)

\* an upload that goes on to add-block without a handle
UploadToDbfsWithoutHandle(a, c, created, added, closed) ==
    LET h == "upload_to_dbfs"
        ep1 == Endpoint("dbfs/create", <<>>)
        ep2 == Endpoint("dbfs/add-block", <<>>)
        ep3 == Endpoint("dbfs/close", <<>>)
        d1 == <<<<"path", 1>>, <<"overwrite", IF a.overwrite THEN 1 ELSE 0>>>>
        r1 == Received(ep1, "json", d1, created)
        d2 == <<<<"handle", r1.json.id>>, <<"data", 1>>>>
        d3 == <<<<"handle", r1.json.id>>>>
        c1 == <<Carrying(Http("POST", ep1, "json", d1, created), a.path, <<>>)>>
        c2 == Append(c1, Carrying(Http("POST", ep2, "json", d2, added), <<>>,
                                  B64Encode(Utf8Encode(a.content))))
        c3 == Append(c2, Http("POST", ep3, "json", d3, closed))
        e2 == RaiseForStatus(ep2, "json", d2, added)
        e3 == RaiseForStatus(ep3, "json", d3, closed)
    IN IF ~ApiConfigured(c) THEN Failure(h, ValueError(MissingApiMsg), <<>>)
       ELSE IF r1.raised # NoExc THEN Failure(h, r1.raised, c1)
       ELSE IF r1.json.shape # "dict" THEN Failure(h, AttributeError, c1)
       ELSE IF e2 # NoExc THEN Failure(h, e2, c2)
       ELSE IF e3 # NoExc THEN Failure(h, e3, c3)
       ELSE Success(UploadedMsg, <<>>, c3)

\* an upload that closes the handle when add-block fails
UploadToDbfsClosing(a, c, created, added, closed) ==
    LET h == "upload_to_dbfs"
        ep1 == Endpoint("dbfs/create", <<>>)
        ep2 == Endpoint("dbfs/add-block", <<>>)
        ep3 == Endpoint("dbfs/close", <<>>)
        d1 == <<<<"path", 1>>, <<"overwrite", IF a.overwrite THEN 1 ELSE 0>>>>
        r1 == Received(ep1, "json", d1, created)
        d2 == <<<<"handle", r1.json.id>>, <<"data", 1>>>>
        d3 == <<<<"handle", r1.json.id>>>>
        c1 == <<Carrying(Http("POST", ep1, "json", d1, created), a.path, <<>>)>>
        c2 == Append(c1, Carrying(Http("POST", ep2, "json", d2, added), <<>>,
                                  B64Encode(Utf8Encode(a.content))))
        c3 == Append(c2, Http("POST", ep3, "json", d3, closed))
        e2 == RaiseForStatus(ep2, "json", d2, added)
        e3 == RaiseForStatus(ep3, "json", d3, closed)
    IN IF ~ApiConfigured(c) THEN Failure(h, ValueError(MissingApiMsg), <<>>)
       ELSE IF r1.raised # NoExc THEN Failure(h, r1.raised, c1)
       ELSE IF r1.json.shape # "dict" THEN Failure(h, AttributeError, c1)
       ELSE IF r1.json.id = 0 THEN Success(NoHandleMsg, <<>>, c1)
       ELSE IF e2 # NoExc THEN Failure(h, e2, c3)
       ELSE IF e3 # NoExc THEN Failure(h, e3, c3)
       ELSE Success(UploadedMsg, <<>>, c3)

\* upload_to_dbfs, lines 633-685: create, add-block, close (id stands for
\* the handle of the create answer)
UploadToDbfs(a, c, created, added, closed) ==
    LET h == "upload_to_dbfs"
        ep1 == Endpoint("dbfs/create", <<>>)
        ep2 == Endpoint("dbfs/add-block", <<>>)
        ep3 == Endpoint("dbfs/close", <<>>)
        d1 == <<<<"path", 1>>, <<"overwrite", IF a.overwrite THEN 1 ELSE 0>>>>
        r1 == Received(ep1, "json", d1, created)
        d2 == <<<<"handle", r1.json.id>>, <<"data", 1>>>>
        d3 == <<<<"handle", r1.json.id>>>>
        c1 == <<Carrying(Http("POST", ep1, "json", d1, created), a.path, <<>>)>>
        c2 == Append(c1, Carrying(Http("POST", ep2, "json", d2, added), <<>>,
                                  B64Encode(Utf8Encode(a.content))))
        c3 == Append(c2, Http("POST", ep3, "json", d3, closed))
        e2 == RaiseForStatus(ep2, "json", d2, added)
        e3 == RaiseForStatus(ep3, "json", d3, closed)
    IN IF ~ApiConfigured(c) THEN Failure(h, ValueError(MissingApiMsg), <<>>)
       ELSE IF r1.raised # NoExc THEN Failure(h, r1.raised, c1)
       ELSE IF r1.json.shape # "dict" THEN Failure(h, AttributeError, c1)
       ELSE IF r1.json.id = 0 THEN Success(NoHandleMsg, <<>>, c1)
       ELSE IF e2 # NoExc THEN Failure(h, e2, c2)
       ELSE IF e3 # NoExc THEN Failure(h, e3, c3)
       ELSE Success(UploadedMsg, <<>>, c3)

\* lines 767-790: the file extension (in a get-status answer id stands for
\* the "language" key: absent when 0, else python)
LanguageExtension(body) == IF body.id # 0 THEN ".py" ELSE ""
FormatExtension(format) == IF format = "HTML" THEN ".html" ELSE ""

\* an export that gives up when the get-status lookup is refused
ExportNotebookStrict(a, c, exported, status) ==
    LET h == "export_notebook"
        ep1 == Endpoint("workspace/export", <<>>)
        ep2 == Endpoint("workspace/get-status", <<>>)
        d1 == <<<<"path", 1>>, <<"format", 1>>>>
        d2 == <<<<"path", 1>>>>
        r1 == Received(ep1, "params", d1, exported)
        r2 == Received(ep2, "params", d2, status)
        c1 == <<Http("GET", ep1, "params", d1, exported)>>
        c2 == Append(c1, Http("GET", ep2, "params", d2, status))
    IN IF ~ApiConfigured(c) THEN Failure(h, ValueError(MissingApiMsg), <<>>)
       ELSE IF r1.raised # NoExc THEN Failure(h, r1.raised, c1)
       ELSE IF r1.json.id = 0 THEN Success("No content found for notebook at {path}.", <<>>, c1)
       ELSE IF a.format # "SOURCE"
       THEN Success("## Exported Notebook: ", <<FormatExtension(a.format)>>, c1)
       ELSE IF r2.raised # NoExc THEN Failure(h, r2.raised, c2)
       ELSE IF status.body.shape # "dict" THEN Failure(h, AttributeError, c2)
       ELSE Success("## Exported Notebook: ", <<LanguageExtension(status.body)>>, c2)

\* export_notebook, lines 741-801 (id stands for the "content" key of the
\* export answer); the get-status lookup is made only for format SOURCE, its
\* status is read without raise_for_status, its body only if the status is
\* 200. The table of the result holds the extension of the file name.
ExportNotebook(a, c, exported, status) ==
    LET h == "export_notebook"
        ep1 == Endpoint("workspace/export", <<>>)
        ep2 == Endpoint("workspace/get-status", <<>>)
        d1 == <<<<"path", 1>>, <<"format", 1>>>>
        d2 == <<<<"path", 1>>>>
        r1 == Received(ep1, "params", d1, exported)
        c1 == <<Http("GET", ep1, "params", d1, exported)>>
        c2 == Append(c1, Http("GET", ep2, "params", d2, status))
    IN IF ~ApiConfigured(c) THEN Failure(h, ValueError(MissingApiMsg), <<>>)
       ELSE IF r1.raised # NoExc THEN Failure(h, r1.raised, c1)
       ELSE IF r1.json.id = 0 THEN Success("No content found for notebook at {path}.", <<>>, c1)
       ELSE IF a.format # "SOURCE"
       THEN Success("## Exported Notebook: ", <<FormatExtension(a.format)>>, c1)
       ELSE IF status.status = NoAnswer THEN Failure(h, ConnectionError, c2)
       ELSE IF status.status # 200 THEN Success("## Exported Notebook: ", <<"">>, c2)
       ELSE IF status.body.shape = "notjson" THEN Failure(h, JSONDecodeError, c2)
       ELSE IF status.body.shape # "dict" THEN Failure(h, AttributeError, c2)
       ELSE Success("## Exported Notebook: ", <<LanguageExtension(status.body)>>, c2)

DirectHandlers == {"list_workspace", "read_dbfs_file", "import_notebook",
                   "list_dbfs_files"}

DirectTool(h, a, c, ans) ==
    CASE h = "list_workspace" -> ListWorkspace(a, c, ans)
      [] h = "read_dbfs_file" -> ReadDbfsFile(a, c, ans)
      [] h = "import_notebook" -> ImportNotebook(a, c, ans)
      [] h = "list_dbfs_files" -> ListDbfsFiles(a, c, ans)

InvokeDirectTool(h) ==
    \E a \in ArgsOf(h), ans \in AnswersIf(ApiConfigured(cfg)) :
        Finish(h, a, DirectTool(h, a, cfg, ans))

Created(ans) == Ok2xx(ans.status) /\ ans.body.shape = "dict" /\ ans.body.id # 0

InvokeUploadToDbfs ==
    \E created \in AnswersIf(ApiConfigured(cfg)) :
        \E added \in StatusAnswersIf(ApiConfigured(cfg) /\ Created(created)) :
            \E closed \in StatusAnswersIf(ApiConfigured(cfg) /\ Created(created)
                                             /\ Ok2xx(added.status)) :
                \E a \in ArgsOf("upload_to_dbfs") :
                    Finish("upload_to_dbfs", a, UploadToDbfs(a, cfg, created, added, closed))

InvokeExportNotebook ==
    \E a \in ArgsOf("export_notebook"), exported \in AnswersIf(ApiConfigured(cfg)) :
        \E status \in AnswersIf(ApiConfigured(cfg) /\ a.format = "SOURCE"
                                     /\ Ok2xx(exported.status)
                                     /\ exported.body.shape # "notjson"
                                     /\ exported.body.id # 0) :
            Finish("export_notebook", a, ExportNotebook(a, cfg, exported, status))

RestHandlers == ApiHandlers \cup DirectHandlers \cup {"upload_to_dbfs", "export_notebook"}

----------------------------------------------------------------------------
(* The server: the host invokes one handler at a time *)

NoIo == [content |-> <<>>, path |-> <<>>, ok |-> FALSE, n |-> 0]

Init ==
    /\ cfg \in Configs
    /\ pc = "idle"
    /\ handler = "none"
    /\ arg = NoArg
    /\ conn = 0
    /\ conns = <<>>
    /\ calls = <<>>
    /\ out = NoOut
    /\ nInv = 0
    /\ failed = FALSE
    /\ result = NoResult
    /\ dbfs = {}
    /\ io = NoIo

Next ==
    \/ \E h \in SqlHandlers, connected \in BOOLEAN : SqlAcquire(h, connected)
    \/ \E ok \in BOOLEAN : SqlRun(ok, SampleResults)
    \/ \E h \in ApiHandlers : InvokeApiTool(h)
    \/ \E h \in DirectHandlers : InvokeDirectTool(h)
    \/ InvokeUploadToDbfs
    \/ InvokeExportNotebook

Spec == Init /\ [][Next]_vars


----------------------------------------------------------------------------
(* run_sql_query on the results of TableInputs *)

InitTable == Init /\ SqlConfigured(cfg)

NextTable ==
    \/ SqlAcquire("run_sql_query", TRUE)
    \/ \E ok \in BOOLEAN : SqlRun(ok, TableInputs)

SpecTable == InitTable /\ [][NextTable]_vars

----------------------------------------------------------------------------
(* databricks_api_request called with any method *)

CallApiRequest(method) ==
    \E ans \in AnswersIf(ApiConfigured(cfg) /\ Dispatch(method) # "") :
        LET a == [NoArg EXCEPT !.method = method]
            r == DatabricksApiRequest(cfg, Endpoint("jobs/list", <<>>), method, <<>>, ans)
        IN Finish("databricks_api_request", a,
                  [calls |-> r.calls,
                   out |-> IF r.raised # NoExc THEN Raised(r.raised)
                           ELSE [kind |-> "json", msg |-> "", detail |-> NoExc,
                                 table |-> <<>>]])

NextRequest == \E method \in Methods : CallApiRequest(method)

SpecRequest == Init /\ [][NextRequest]_vars


----------------------------------------------------------------------------
(* create_job called with every combination of its arguments *)

CreateJobArgs ==
    {[NoArg EXCEPT !.cluster_id = c, !.new_cluster = n, !.notebook_path = t,
                   !.spark_jar_task = j, !.spark_python_task = y, !.schedule = s,
                   !.timeout_seconds = o, !.max_concurrent_runs = r, !.max_retries = m] :
        c \in BOOLEAN, n \in BOOLEAN, t \in BOOLEAN, j \in BOOLEAN, y \in BOOLEAN,
        s \in BOOLEAN, o \in BOOLEAN, r \in BOOLEAN, m \in BOOLEAN}

CreateJob(a) ==
    \E ans \in IF ApiConfigured(cfg) /\ ArgError("create_job", a) = ""
               THEN {Answer(200, Dict(Absent, NewId)), Answer(500, NotJson)}
               ELSE {Answer(NoAnswer, NotJson)} :
        Finish("create_job", a, ApiTool("create_job", a, cfg, ans))

NextCreateJob == \E a \in CreateJobArgs : CreateJob(a)

SpecCreateJob == Init /\ [][NextCreateJob]_vars

----------------------------------------------------------------------------
(* The diagnostic script, src/test_connection.py *)

\* what the remote answers to one request of the script: no answer (requests
\* raises), or a status with a body that is JSON or not (json), holds the key
\* the script looks for or not (has), under it something truthy or not (some,
\* for clusters: one that is RUNNING), the identifier in the body (id), and
\* whether the text says that Unity Catalog is not enabled (text)
NoId == ""
FirstId == "a"
SecondId == "b"
Reply(status, json, has, some, id) ==
    [status |-> status, json |-> json, has |-> has, some |-> some, id |-> id,
     text |-> FALSE]
Lost == Reply(NoAnswer, FALSE, FALSE, FALSE, NoId)
Refused == Reply(403, TRUE, FALSE, FALSE, NoId)
Replies ==
    {Lost, Refused, Reply(200, FALSE, FALSE, FALSE, NoId), Reply(200, TRUE, FALSE, FALSE, NoId),
     Reply(200, TRUE, TRUE, FALSE, NoId), Reply(200, TRUE, TRUE, TRUE, FirstId),
     Reply(200, TRUE, TRUE, TRUE, SecondId), Reply(404, TRUE, FALSE, FALSE, NoId),
     [Reply(400, TRUE, FALSE, FALSE, NoId) EXCEPT !.text = TRUE]}
\* answers to the requests whose identifiers the script does not read
PlainReplies == {r \in Replies : r.id = NoId /\ ~r.text} \cup {Reply(200, TRUE, TRUE, TRUE, NoId)}

\* response.json() raises
JsonRaises(r) == ~r.json
\* the first request of a check: status 200, data = response.json(), key in data
Listed(r) == r.status = 200 /\ r.json /\ r.has
\* response.status_code == 200 and key in response.json(), once the body is JSON
OkWith(r) == r.status = 200 /\ r.has
\* the request raised, or the script read a body that is not JSON
Raises(r) == r.status = NoAnswer \/ (r.status = 200 /\ JsonRaises(r))

\* the names the script gives to what it creates
TestPath == "/FileStore/test-upload.txt"
TestNotebookPath == "/Users/test-import-notebook"
CatalogName == "test_catalog_"

\* a check so far: the requests it sent and what the remote created for it
Started == [calls |-> <<>>, made |-> {}]
Send(s, method, url, id) ==
    [s EXCEPT !.calls = Append(@, [method |-> method, url |-> url, id |-> id])]
Make(s, kind, id) == [s EXCEPT !.made = @ \cup {[kind |-> kind, id |-> id]}]
\* a check returns ok; the except branch of every check returns False
Return(s, ok) == [calls |-> s.calls, made |-> s.made, ok |-> ok]

\* test_databricks_api, lines 42-65
TestDatabricksApi ==
    {Return(Send(Started, "GET", "clusters/list-node-types", NoId), r.status = 200) :
        r \in PlainReplies}

\* test_sql_connection, lines 569-600: connect or execute raises, or the
\* statement gives 1, or something else
TestSqlConnection == {Return(Started, o = "one") : o \in {"raises", "one", "other"}}

\* test_clusters_api, lines 67-110
TestClustersApi ==
    UNION {LET s == Send(Started, "GET", "clusters/list", NoId)
           IN IF ~Listed(r) THEN {Return(s, FALSE)}
              ELSE IF ~r.some THEN {Return(s, TRUE)}
              ELSE {Return(Send(s, "GET", "clusters/get", r.id), d.status # NoAnswer) :
                       d \in PlainReplies} :
           r \in Replies}

\* test_jobs_api, lines 319-355: the job is created and the check returns True
JobsCreate(s, c) ==
    IF Raises(c) THEN {Return(s, FALSE)}
    ELSE IF ~(OkWith(c) /\ c.some) THEN {Return(s, TRUE)}
    ELSE UNION {LET t == Send(s, "POST", "jobs/create", NoId)
                IN IF Raises(j) THEN {Return(t, FALSE)}
                   ELSE IF OkWith(j) THEN {Return(Make(t, "job", j.id), TRUE)}
                   ELSE {Return(t, TRUE)} :
                j \in Replies}

\* test_jobs_api, lines 319-322: the clusters are listed
JobsClusters(s) ==
    UNION {JobsCreate(Send(s, "GET", "clusters/list", NoId), c) : c \in PlainReplies}

\* test_jobs_api, lines 288-316: details, status and runs of the first job
JobsFirstJob(s, id) ==
    UNION {LET s1 == Send(s, "GET", "jobs/get", id)
               s2 == Send(s1, "GET", "jobs/runs/list", id)
               s3 == Send(s2, "GET", "2.2/jobs/runs/list", NoId)
           IN IF d.status = NoAnswer THEN {Return(s1, FALSE)}
              ELSE IF Raises(st) THEN {Return(s2, FALSE)}
              ELSE IF Raises(ru) THEN {Return(s3, FALSE)}
              ELSE JobsClusters(s3) :
           d \in {Lost, Refused}, st \in PlainReplies, ru \in {Lost, Refused}}

\* test_jobs_api, lines 267-365
TestJobsApi ==
    UNION {LET s == Send(Started, "GET", "jobs/list", NoId)
           IN IF ~Listed(r) THEN {Return(s, FALSE)}
              ELSE IF r.some THEN JobsFirstJob(s, r.id)
              ELSE JobsClusters(s) :
           r \in Replies}

\* test_dbfs_api, lines 432-444: the upload is verified by reading it back
DbfsVerify(s) ==
    {Return(Send(s, "GET", "dbfs/read", TestPath), ~Raises(v)) : v \in PlainReplies}

\* test_dbfs_api, lines 405-452: create, add-block, close
DbfsUploadTest(s) ==
    UNION {LET s1 == Send(s, "POST", "dbfs/create", TestPath)
               s2 == Send(s1, "POST", "dbfs/add-block", h.id)
               s3 == Send(s2, "POST", "dbfs/close", h.id)
           IN IF Raises(h) THEN {Return(s1, FALSE)}
              ELSE IF ~OkWith(h) THEN {Return(s1, TRUE)}
              ELSE IF a.status = NoAnswer THEN {Return(s2, FALSE)}
              ELSE IF a.status # 200 THEN {Return(s2, TRUE)}
              ELSE IF c.status = NoAnswer THEN {Return(s3, FALSE)}
              ELSE IF c.status # 200 THEN {Return(s3, TRUE)}
              ELSE DbfsVerify(Make(s3, "file", TestPath)) :
           h \in Replies, a \in {Lost, Refused, Reply(200, TRUE, FALSE, FALSE, NoId)},
           c \in {Lost, Refused, Reply(200, TRUE, FALSE, FALSE, NoId)}}

\* test_dbfs_api, lines 456-481: the listing is fetched with curl
DbfsCurl(s) ==
    {Return(Send(s, "curl", "dbfs/list", NoId), o = "files") :
        o \in {"raises", "failed", "not json", "no files", "files"}}

\* test_dbfs_api, lines 367-485
TestDbfsApi ==
    UNION {LET s == Send(Started, "GET", "dbfs/list", NoId)
           IN IF r.status = NoAnswer THEN {Return(s, FALSE)}
              ELSE IF r.status # 200 THEN DbfsCurl(s)
              ELSE IF ~Listed(r) THEN {Return(s, FALSE)}
              ELSE IF ~r.some THEN DbfsUploadTest(s)
              ELSE UNION {LET t == Send(s, "GET", "dbfs/read", NoId)
                          IN IF Raises(rd) THEN {Return(t, FALSE)}
                             ELSE DbfsUploadTest(t) :
                          rd \in PlainReplies} :
           r \in PlainReplies}

\* test_workspace_api, lines 487-567
TestWorkspaceApi ==
    UNION {LET s == Send(Started, "GET", "workspace/list", NoId)
               s1 == Send(s, "POST", "workspace/import", TestNotebookPath)
               s2 == Send(Make(s1, "notebook", TestNotebookPath), "GET",
                          "workspace/export", TestNotebookPath)
           IN IF ~Listed(r) THEN {Return(s, FALSE)}
              ELSE IF i.status = NoAnswer THEN {Return(s1, FALSE)}
              ELSE IF i.status # 200 THEN {Return(s1, TRUE)}
              ELSE {Return(s2, ~Raises(e))} :
           r \in PlainReplies, i \in PlainReplies, e \in PlainReplies}

\* test_instance_pools_api, lines 112-184
TestInstancePoolsApi ==
    UNION {LET s == Send(Started, "GET", "instance-pools/list", NoId)
               s1 == Send(s, "GET", "clusters/list-node-types", NoId)
               s2 == Send(s1, "POST", "instance-pools/create", NoId)
               s3 == Send(Make(s2, "pool", p.id), "POST", "instance-pools/delete", p.id)
           IN IF ~Listed(r) THEN {Return(s, FALSE)}
              ELSE IF Raises(n) THEN {Return(s1, FALSE)}
              ELSE IF ~(OkWith(n) /\ n.some) THEN {Return(s1, TRUE)}
              ELSE IF Raises(p) THEN {Return(s2, FALSE)}
              ELSE IF ~OkWith(p) THEN {Return(s2, TRUE)}
              ELSE {Return(s3, d.status # NoAnswer)} :
           r \in PlainReplies, n \in PlainReplies, p \in Replies, d \in {Lost, Refused,
                                                     Reply(200, TRUE, FALSE, FALSE, NoId)}}

\* test_unity_catalog_api, lines 186-265
TestUnityCatalogApi ==
    UNION {LET s == Send(Started, "GET", "unity-catalog/catalogs", NoId)
               s1 == Send(s, "POST", "unity-catalog/catalogs", CatalogName)
               s2 == Send(Make(s1, "catalog", CatalogName), "POST",
                          "unity-catalog/schemas", CatalogName)
               s3 == Send(s2, "DELETE", "unity-catalog/catalogs/{name}", CatalogName)
           IN IF r.status = NoAnswer THEN {Return(s, FALSE)}
              ELSE IF r.status = 404 \/ (r.status = 400 /\ r.text) THEN {Return(s, TRUE)}
              ELSE IF ~Listed(r) THEN {Return(s, FALSE)}
              ELSE IF c.status = NoAnswer THEN {Return(s1, FALSE)}
              ELSE IF c.status # 200 THEN {Return(s1, TRUE)}
              ELSE IF sc.status = NoAnswer THEN {Return(s2, FALSE)}
              ELSE {Return(s3, d.status # NoAnswer)} :
           r \in Replies, c \in PlainReplies, sc \in {Lost, Refused,
                                                      Reply(200, TRUE, FALSE, FALSE, NoId)},
           d \in {Lost, Refused, Reply(200, TRUE, FALSE, FALSE, NoId)}}

\* __main__, lines 623-630: the checks in the order they are called
Order == <<"api", "sql", "clusters", "jobs", "dbfs", "workspace", "pools", "catalog">>

OutcomesOf(check) ==
    CASE check = "api" -> TestDatabricksApi
      [] check = "sql" -> TestSqlConnection
      [] check = "clusters" -> TestClustersApi
      [] check = "jobs" -> TestJobsApi
      [] check = "dbfs" -> TestDbfsApi
      [] check = "workspace" -> TestWorkspaceApi
      [] check = "pools" -> TestInstancePoolsApi
      [] check = "catalog" -> TestUnityCatalogApi

\* an exit that looks at the environment and the first check only
ExitStatusOfFirst(results) ==
    IF results[1][2] /\ results[2][2] THEN 0 ELSE 1

\* __main__, lines 643-647: the exit status after the summary
ExitStatus(results) ==
    IF \A i \in 1..Len(results) : results[i][2] THEN 0 ELSE 1

Exited(status) == [kind |-> "exit", status |-> status]

\* __main__, lines 606-613: the dependencies are imported
ImportDependencies(found) ==
    /\ pc = "main"
    /\ pc' = IF found THEN "env" ELSE "exited"
    /\ out' = IF found THEN out ELSE Exited(1)
    /\ UNCHANGED <<cfg, handler, arg, conn, conns, calls, nInv, failed, result, dbfs, io>>

\* check_env_vars, lines 22-40, and lines 616-619 of __main__
CheckEnvVars ==
    /\ pc = "env"
    /\ LET env_ok == cfg.host /\ cfg.token /\ cfg.path
       IN /\ result' = <<<<"env", env_ok>>>>
          /\ pc' = IF env_ok THEN "checks" ELSE "exited"
          /\ out' = IF env_ok THEN out ELSE Exited(1)
    /\ UNCHANGED <<cfg, handler, arg, conn, conns, calls, nInv, failed, dbfs, io>>

\* __main__, lines 621-628: the next check is called
RunCheck ==
    /\ pc = "checks"
    /\ Len(result) <= Len(Order)
    /\ \E o \in OutcomesOf(Order[Len(result)]) :
          /\ handler' = Order[Len(result)]
          /\ calls' = o.calls
          /\ io' = o.made
          /\ result' = Append(result, <<Order[Len(result)], o.ok>>)
    /\ UNCHANGED <<cfg, pc, arg, conn, conns, out, nInv, failed, dbfs>>

\* __main__, lines 630-647: the summary and the exit
Summary ==
    /\ pc = "checks"
    /\ Len(result) = Len(Order) + 1
    /\ pc' = "exited"
    /\ out' = Exited(ExitStatus(result))
    /\ UNCHANGED <<cfg, handler, arg, conn, conns, calls, nInv, failed, result, dbfs, io>>

InitScript ==
    /\ cfg \in Configs
    /\ pc = "main" /\ handler = "none" /\ arg = NoArg /\ conn = 0 /\ conns = <<>>
    /\ calls = <<>> /\ out = NoOut /\ nInv = 0 /\ failed = FALSE /\ result = <<>>
    /\ dbfs = {} /\ io = {}

NextScript ==
    \/ \E found \in BOOLEAN : ImportDependencies(found)
    \/ CheckEnvVars
    \/ RunCheck
    \/ Summary

SpecScript == InitScript /\ [][NextScript]_vars

----------------------------------------------------------------------------
(* SQL handlers invoked concurrently: each invocation runs get_databricks_connection,
   its statement and its finally block as separate steps *)

Invocations == 1..MaxConcurrent

\* a connection: who opened it, who ran statements on it, who closed it, and
\* whether a statement ran on it after it was closed
ConnOf(owner) ==
    [state |-> "open", owner |-> owner, users |-> {}, closers |-> {}, late |-> FALSE]

\* a connect() that hands the first connection to every invocation
ConnectShared(cs, i) ==
    IF cs = <<>> THEN [conns |-> <<ConnOf(i)>>, handle |-> 1]
    ELSE [conns |-> cs, handle |-> 1]

\* lines 30-34: connect(...) gives a new connection, returned to the caller
Connect(cs, i) == [conns |-> Append(cs, ConnOf(i)), handle |-> Len(cs) + 1]

\* lines 62 and 82: conn = get_databricks_connection(); a failure leaves the
\* handler
Acquire(i, h, connected) ==
    /\ pc[i] = "idle"
    /\ handler' = [handler EXCEPT ![i] = h]
    /\ IF SqlConfigured(cfg) /\ connected
       THEN LET c == Connect(conns, i)
            IN /\ conns' = c.conns
               /\ conn' = [conn EXCEPT ![i] = c.handle]
               /\ pc' = [pc EXCEPT ![i] = "connected"]
       ELSE /\ pc' = [pc EXCEPT ![i] = "done"]
            /\ UNCHANGED <<conn, conns>>
    /\ UNCHANGED <<cfg, arg, calls, out, nInv, failed, result, dbfs, io>>

\* lines 64-65 and 86-87: the statement, on the local variable conn
Execute(i) ==
    /\ pc[i] = "connected"
    /\ conns' = [conns EXCEPT ![conn[i]].users = @ \cup {i},
                              ![conn[i]].late = @ \/ conns[conn[i]].state = "closed"]
    /\ pc' = [pc EXCEPT ![i] = "executed"]
    /\ UNCHANGED <<cfg, handler, arg, conn, calls, out, nInv, failed, result, dbfs, io>>

\* lines 74-76 and 110-112: the finally block, conn.close()
Close(i) ==
    /\ pc[i] = "executed"
    /\ conns' = [conns EXCEPT ![conn[i]].closers = @ \cup {i},
                              ![conn[i]].state = "closed"]
    /\ pc' = [pc EXCEPT ![i] = "done"]
    /\ UNCHANGED <<cfg, handler, arg, conn, calls, out, nInv, failed, result, dbfs, io>>

InitConcurrent ==
    /\ cfg \in Configs
    /\ pc = [i \in Invocations |-> "idle"]
    /\ handler = [i \in Invocations |-> "none"]
    /\ conn = [i \in Invocations |-> 0]
    /\ arg = NoArg /\ conns = <<>> /\ calls = <<>> /\ out = NoOut /\ nInv = 0
    /\ failed = FALSE /\ result = NoResult /\ dbfs = {} /\ io = NoIo

NextConcurrent ==
    \/ \E i \in Invocations, h \in SqlHandlers, connected \in BOOLEAN :
          Acquire(i, h, connected)
    \/ \E i \in Invocations : Execute(i)
    \/ \E i \in Invocations : Close(i)

SpecConcurrent == InitConcurrent /\ [][NextConcurrent]_vars

----------------------------------------------------------------------------
(* Properties *)

Returning == pc = "idle" /\ handler # "none"
LastCall == calls[Len(calls)]
NoConfig == ~cfg.host /\ ~cfg.token /\ ~cfg.path
ConfigErrors == {ValueError(MissingConnMsg), ValueError(MissingApiMsg)}

\* C1: every invocation of a registered handler ends by returning a string to
\* the host, whatever its collaborator did; no exception leaves a handler.
HandlersAlwaysReturnString ==
    Returning => out.kind = "string"

\* C2: with host, token and warehouse path all absent, every handler that is
\* given valid arguments returns a configuration-error string and attempts no
\* remote request.
NoConfigGivesConfigErrorString ==
    (Returning /\ NoConfig /\ ArgError(handler, arg) = "") =>
        /\ out.kind = "string"
        /\ out.detail \in ConfigErrors
        /\ calls = <<>>

\* C3: a table returned by run_sql_query for N rows and M columns has exactly
\* N+2 lines, and every line has exactly M pipe-delimited cells.
TableHasNPlus2LinesOfMCells ==
    (Returning /\ handler = "run_sql_query" /\ out.msg = "table") =>
        LET ls == Lines(out.table)
        IN /\ Len(ls) = Len(result.rows) + 2
           /\ \A i \in 1..Len(ls) : Len(Cells(ls[i])) = Len(result.description)

StatementSucceeded == calls # <<>> /\ LastCall.kind = "statement" /\ LastCall.status = 200

\* C4: when the statement of run_sql_query succeeds and gives zero rows, with
\* column metadata or without any, the handler returns the literal "no
\* results" message and no table at all.
ZeroRowsGiveNoResultsMessage ==
    (Returning /\ handler = "run_sql_query" /\ StatementSucceeded /\ result.rows = <<>>) =>
        out = Returned(NoResultsMsg, NoExc, <<>>)

ZeroRowsWithMetadata ==
    /\ Returning /\ handler = "run_sql_query" /\ StatementSucceeded
    /\ result.description # <<>> /\ result.rows = <<>>
    /\ out.msg = NoResultsMsg

\* C6: when the remote answers the request of get_job_details with 404, the
\* handler returns its error string carrying the HTTP error "404 ... Not Found
\* for url", whose URL names the requested job_id.
JobDetails404NamesJob ==
    (handler = "get_job_details" /\ calls # <<>> /\ calls[1].status = 404) =>
        /\ out.kind = "string"
        /\ out.msg = "Error getting job details: "
        /\ out.detail.exc = "HTTPError"
        /\ out.detail.status = 404
        /\ out.detail.path = "jobs/get"
        /\ \E i \in 1..Len(out.detail.q) : out.detail.q[i] = <<"job_id", arg.job_id>>

JobDetails404Seen ==
    /\ handler = "get_job_details" /\ arg.job_id = 7
    /\ calls # <<>> /\ calls[1].status = 404
    /\ out.detail.status = 404

\* C7: databricks_api_request raises the configuration error when host or
\* token is absent (whatever the method), raises the unsupported-method error
\* for a method that is neither GET nor POST in any letter case, both without
\* sending a request; a GET or POST in any letter case is sent once.
RequestChecksBeforeSending ==
    handler = "databricks_api_request" =>
        /\ ~ApiConfigured(cfg) =>
              out = Raised(ValueError(MissingApiMsg)) /\ calls = <<>>
        /\ (ApiConfigured(cfg) /\ arg.method \notin {"GET", "get", "Get", "POST", "post", "pOsT"}) =>
              out = Raised(ValueError(UnsupportedMethodMsg)) /\ calls = <<>>
        /\ (ApiConfigured(cfg) /\ arg.method \in {"GET", "get", "Get"}) =>
              Len(calls) = 1 /\ calls[1].method = "GET" /\ out.detail.exc # "ValueError"
        /\ (ApiConfigured(cfg) /\ arg.method \in {"POST", "post", "pOsT"}) =>
              Len(calls) = 1 /\ calls[1].method = "POST" /\ out.detail.exc # "ValueError"

UnconfiguredBadMethodSeen ==
    /\ handler = "databricks_api_request"
    /\ ~ApiConfigured(cfg) /\ arg.method = "PUT"
    /\ out = Raised(ValueError(MissingApiMsg))

\* the request a call attempts, apart from how it ended
Request(call) == [call EXCEPT !.status = 0, !.answer = <<>>]

\* C8: nothing is retried: no request is attempted twice in one invocation,
\* and a request that failed is the last one of its invocation.
NothingRetried ==
    /\ \A i, j \in 1..Len(calls) : i < j => Request(calls[i]) # Request(calls[j])
    /\ \A i, j \in 1..Len(calls) : (i < j /\ ~Ok2xx(calls[i].status)) =>
           <<calls[j].kind, calls[j].method, calls[j].path>>
               # <<calls[i].kind, calls[i].method, calls[i].path>>

FailedSecondRequestSeen ==
    /\ Returning /\ Len(calls) = 2
    /\ Ok2xx(calls[1].status) /\ ~Ok2xx(calls[2].status)

Live == {k \in 1..Len(conns) : conns[k].state = "open"}

\* C11: at most one SQL connection is open at any time, and whenever a new
\* connection is constructed every earlier one, a connection whose statement
\* failed included, has already been closed.
AtMostOneLiveConnection ==
    /\ [](Cardinality(Live) <= 1)
    /\ [][Len(conns') > Len(conns) => Live = {}]_vars

BadConnectionReplaced ==
    /\ Len(conns) = 2 /\ conns[1].bad /\ conns[1].state = "closed"
    /\ conns[2].state = "open"

ConnectFailed(call) == call.kind = "connect" /\ call.status = NoAnswer

\* C12: when connect() fails, the exception leaves the acquisition and ends
\* the operation that asked for the connection: nothing else is attempted, no
\* statement is executed, the operation holds no connection; and no request
\* other than connect and the statement (no liveness probe) is ever made on
\* behalf of a SQL handler, so no probe failure can reach the caller.
ConnectFailureIsFatal ==
    /\ (\E i \in 1..Len(calls) : ConnectFailed(calls[i])) =>
          /\ calls = <<SqlCall("connect", NoAnswer)>>
          /\ pc = "idle" /\ conn = 0
          /\ out.kind = "raised" /\ out.detail.text = "connect failed"
    /\ handler \in SqlHandlers =>
          \A i \in 1..Len(calls) : calls[i].kind \in {"connect", "statement"}

ConnectFailureSeen ==
    /\ handler = "run_sql_query" /\ Len(conns) = 1
    /\ calls # <<>> /\ ConnectFailed(calls[1])
    /\ out.kind = "raised"

\* the decoded body of the answer to the first request of the invocation
FirstJson == calls[1].answer[1]
GotDict == Len(calls) = 1 /\ Ok2xx(calls[1].status) /\ FirstJson.shape = "dict"

\* C13: a create handler given a successful response returns its success
\* message when the response carries the identifier, and its generic failure
\* message when the identifier is absent.
CreateReportsIdentifier ==
    (handler \in CreateHandlers /\ GotDict) =>
        IF FirstJson.id # 0
        THEN out = Returned(CreatedMsg(handler), NoExc, <<>>)
        ELSE out = Returned(NotCreatedMsg(handler), NoExc, <<>>)

AllListHandlers == ListHandlers \cup {"list_dbfs_files", "list_workspace"}

\* C14: a list handler given a successful response returns its sentinel
\* exactly when the item list is absent or empty, and otherwise a table of
\* exactly one header line, one separator line and one line per item, the
\* items in response order.
ListGivesSentinelOrTable ==
    (handler \in AllListHandlers /\ GotDict) =>
        IF FirstJson.items <= 0
        THEN out = Returned(Sentinel(handler, arg), NoExc, <<>>)
        ELSE /\ out.msg = "table"
             /\ LET ls == Lines(out.table)
                IN /\ Len(ls) = FirstJson.items + 2
                   /\ \A i \in 1..FirstJson.items :
                          Cells(ls[i + 2])[1] = <<" ">> \o FirstJson.list[i] \o <<" ">>

Shows(text, token) == \E k \in 1..Len(text) : text[k] = token

\* C15: list_job_runs sends exactly one jobs/runs/list request whatever page
\* tokens the response carries, and every non-empty token of a response that
\* lists runs appears in the returned string.
PageTokensSurfacedNotFollowed ==
    (handler = "list_job_runs" /\ ApiConfigured(cfg)) =>
        /\ Len(calls) = 1
        /\ calls[1].path = "jobs/runs/list" /\ calls[1].method = "GET"
        /\ (GotDict /\ FirstJson.items > 0) =>
              /\ out.kind = "string"
              /\ FirstJson.next # "" => Shows(out.table, FirstJson.next)
              /\ FirstJson.prev # "" => Shows(out.table, FirstJson.prev)

BothPageTokensSeen ==
    /\ handler = "list_job_runs" /\ Len(calls) = 1 /\ GotDict
    /\ FirstJson.items = 2 /\ FirstJson.next = "tokN" /\ FirstJson.prev = "tokP"
    /\ out.msg = "table"

IdHandlers == {"get_job_status", "get_job_details", "list_job_runs"}
NonPositiveId == handler \in IdHandlers /\ arg.has_job_id /\ arg.job_id <= 0
ErrorString == out.kind = "string" /\ out.detail # NoExc

PrefixOf(h) ==
    CASE h = "get_schema" -> "Error retrieving tables: "
      [] h = "run_sql_query" -> "Error executing query: "
      [] OTHER -> ErrorPrefix(h)

HandlersLeaveModuleStateAlone ==
    /\ [][cfg' = cfg]_vars
    /\ [](pc = "idle" => conn = 0)

SqlThenFailedToolSeen ==
    /\ nInv = 1 /\ Len(conns) = 1 /\ conns[1].state = "closed"
    /\ handler = "upload_to_dbfs" /\ ErrorString /\ Len(calls) = 2
    /\ SqlConfigured(cfg)

\* C19: a request made through databricks_api_request carries the caller's
\* data as URL query parameters when it is a GET and as a JSON body when it
\* is a POST; the job_id filter of get_job_status and list_job_runs travels
\* as a query parameter.
GetSendsQueryPostSendsJson ==
    handler \in ApiHandlers =>
        /\ \A i \in 1..Len(calls) :
              /\ calls[i].method = "GET" => calls[i].via = "params"
              /\ calls[i].method = "POST" => calls[i].via = "json"
              /\ calls[i].data = ApiData(handler, arg)
        /\ (handler \in {"get_job_status", "list_job_runs"} /\ arg.has_job_id
               /\ calls # <<>>) =>
              /\ calls[1].via = "params"
              /\ calls[1].data = <<<<"job_id", arg.job_id>>>>

JobIdFilterSent ==
    /\ handler = "list_job_runs" /\ arg.has_job_id /\ arg.job_id = 7
    /\ Len(calls) = 1 /\ calls[1].method = "GET" /\ calls[1].via = "params"
    /\ calls[1].status = 200

\* the handle the create request of the invocation was given (0: none), and
\* whether a request that releases a handle has succeeded since
HandleCreated ==
    IF calls # <<>> /\ calls[1].path = "dbfs/create" /\ Ok2xx(calls[1].status)
          /\ FirstJson.shape = "dict"
    THEN FirstJson.id ELSE 0
HandleReleased ==
    \E i \in 2..Len(calls) :
        /\ calls[i].path \in {"dbfs/close", "dbfs/abort", "dbfs/delete"}
        /\ Ok2xx(calls[i].status)

\* C20: when add-block or close fails after create gave a handle,
\* upload_to_dbfs sends nothing after the failed request (no close, abort or
\* delete), returns its error string, and the handle has not been released.
UploadHasNoCompensation ==
    \A i \in 2..Len(calls) :
        (handler = "upload_to_dbfs" /\ ~Ok2xx(calls[i].status)) =>
            /\ HandleCreated # 0
            /\ calls[i].path \in {"dbfs/add-block", "dbfs/close"}
            /\ i = Len(calls)
            /\ out.kind = "string" /\ out.msg = "Error uploading to DBFS: "
            /\ out.detail # NoExc
            /\ ~HandleReleased

CloseFailedSeen ==
    /\ handler = "upload_to_dbfs" /\ Len(calls) = 3
    /\ calls[3].path = "dbfs/close" /\ calls[3].status = 500
    /\ HandleCreated = NewId /\ ~HandleReleased
    /\ ErrorString

RefusedByRemote ==
    calls # <<>> /\ calls[1].status # NoAnswer /\ ~Ok2xx(calls[1].status)

\* C22: a REST-backed handler whose primary request the remote answered with
\* a non-2xx status returns an error string, never a table, a sentinel or a
\* success message.
Non2xxGivesErrorString ==
    (handler \in RestHandlers /\ RefusedByRemote) => ErrorString

UploadSteps == <<"dbfs/create", "dbfs/add-block", "dbfs/close">>

\* C23: the requests of upload_to_dbfs are a prefix of create, add-block,
\* close: add-block follows a create that succeeded and gave a handle, close
\* follows an add-block that succeeded, both carry the handle create gave,
\* and the success message is returned only after all three succeeded.
UploadCallsArePrefix ==
    handler = "upload_to_dbfs" =>
        /\ Len(calls) <= 3
        /\ \A i \in 1..Len(calls) :
              /\ calls[i].path = UploadSteps[i] /\ calls[i].method = "POST"
              /\ i > 1 => Ok2xx(calls[i - 1].status)
        /\ Len(calls) >= 2 =>
              /\ HandleCreated # 0
              /\ calls[2].data[1] = <<"handle", HandleCreated>>
        /\ Len(calls) = 3 => calls[3].data = <<<<"handle", HandleCreated>>>>
        /\ out.msg = UploadedMsg =>
              (Len(calls) = 3 /\ \A i \in 1..3 : Ok2xx(calls[i].status))

UploadCompleted ==
    /\ handler = "upload_to_dbfs" /\ out.msg = UploadedMsg
    /\ Len(calls) = 3 /\ calls[3].data = <<<<"handle", NewId>>>>

\* C24: when the create request of upload_to_dbfs succeeds and its answer
\* carries no handle, the handler returns its "Error: Failed to create a
\* handle" string and sends neither add-block nor close.
NoHandleStopsUpload ==
    (handler = "upload_to_dbfs" /\ calls # <<>> /\ Ok2xx(calls[1].status)
        /\ FirstJson.shape = "dict" /\ FirstJson.id = 0) =>
        /\ out = Returned(NoHandleMsg, NoExc, <<>>)
        /\ Len(calls) = 1

NoHandleSeen ==
    /\ handler = "upload_to_dbfs" /\ Len(calls) = 1 /\ calls[1].status = 200
    /\ FirstJson = Dict(Absent, 0)
    /\ out.msg = NoHandleMsg

\* C25: export_notebook makes its get-status lookup only for format SOURCE
\* and only after the export request succeeded and gave content; when the
\* lookup is answered with a status other than 200, the exported notebook
\* is still returned, under a file name without extension.
ExportLookupIsOptional ==
    handler = "export_notebook" =>
        /\ Len(calls) <= 2
        /\ Len(calls) = 2 =>
              /\ arg.format = "SOURCE"
              /\ calls[1].path = "workspace/export" /\ Ok2xx(calls[1].status)
              /\ FirstJson.shape # "notjson" /\ FirstJson.id # 0
              /\ calls[2].path = "workspace/get-status"
        /\ (Len(calls) = 2 /\ calls[2].status \notin {NoAnswer, 200}) =>
              out = Returned("## Exported Notebook: ", NoExc, <<"">>)

LookupRefusedSeen ==
    /\ handler = "export_notebook" /\ Len(calls) = 2 /\ calls[2].status = 404
    /\ out.msg = "## Exported Notebook: "

\* the keys of the settings a create_job request carries
SentSettings ==
    {calls[1].data[i][2] : i \in {k \in 1..Len(calls[1].data) :
                                      calls[1].data[k][1] = "settings"}}
OneOf(keys, chosen) == SentSettings \cap keys = {chosen}
ClusterKeys == {"existing_cluster_id", "new_cluster"}
TaskKeys == {"notebook_task", "spark_jar_task", "spark_python_task"}

\* C26: the settings of every request create_job sends hold exactly one
\* cluster key (existing_cluster_id when cluster_id is given, else
\* new_cluster), exactly one task key (notebook, then JAR, then Python), and
\* each optional field exactly when its argument is truthy.
CreateJobSettingsWellFormed ==
    (handler = "create_job" /\ calls # <<>>) =>
        /\ OneOf(ClusterKeys, IF arg.cluster_id THEN "existing_cluster_id"
                              ELSE "new_cluster")
        /\ OneOf(TaskKeys, IF arg.notebook_path THEN "notebook_task"
                           ELSE IF arg.spark_jar_task THEN "spark_jar_task"
                           ELSE "spark_python_task")
        /\ ("schedule" \in SentSettings) = arg.schedule
        /\ ("timeout_seconds" \in SentSettings) = arg.timeout_seconds
        /\ ("max_concurrent_runs" \in SentSettings) = arg.max_concurrent_runs
        /\ ("max_retries" \in SentSettings) = arg.max_retries

EveryArgumentGivenSeen ==
    /\ handler = "create_job" /\ Len(calls) = 1
    /\ arg.cluster_id /\ arg.new_cluster
    /\ arg.notebook_path /\ arg.spark_jar_task /\ arg.spark_python_task
    /\ arg.schedule /\ ~arg.max_retries
    /\ out.msg = CreatedMsg("create_job")

NoCluster == ~arg.cluster_id /\ ~arg.new_cluster
NoTask == ~arg.notebook_path /\ ~arg.spark_jar_task /\ ~arg.spark_python_task

\* C27: create_job given no cluster, or no task, returns its argument-error
\* string and sends no request, whatever the configuration and the other
\* arguments are.
CreateJobArgumentErrors ==
    (handler = "create_job" /\ (NoCluster \/ NoTask)) =>
        /\ calls = <<>>
        /\ out = Returned(IF NoCluster THEN NoClusterMsg ELSE NoTaskMsg, NoExc, <<>>)

NoTaskUnconfiguredSeen ==
    /\ handler = "create_job" /\ ~ApiConfigured(cfg)
    /\ arg.cluster_id /\ NoTask /\ arg.schedule
    /\ out.msg = NoTaskMsg

\* the script has run to its exit
ScriptExited == pc = "exited" /\ out.kind = "exit"
AllTrue == Len(result) = Len(Order) + 1 /\ \A i \in 1..Len(result) : result[i][2]
RanInOrder(n) ==
    Len(result) = n + 1 /\ \A i \in 1..n : result[i + 1][1] = Order[i]

\* C21: the diagnostic script exits with status 0 exactly when the environment
\* check and all eight connectivity checks returned True; when the environment
\* check fails it exits with status 1 and no connectivity check has run; when
\* it passes, the checks run in the order API, SQL, clusters, jobs, DBFS,
\* workspace, instance pools, Unity Catalog, all eight of them before the exit,
\* whatever the earlier ones returned.
ScriptExitStatus ==
    /\ ScriptExited => out.status \in {0, 1} /\ (out.status = 0 <=> AllTrue)
    /\ (ScriptExited /\ result # <<>> /\ ~result[1][2]) =>
          out.status = 1 /\ Len(result) = 1 /\ calls = <<>>
    /\ (result # <<>> /\ result[1][2]) =>
          /\ \E n \in 0..Len(Order) : RanInOrder(n)
          /\ ScriptExited => RanInOrder(Len(Order))

FailedFirstCheckRanAll ==
    /\ ScriptExited /\ out.status = 1
    /\ RanInOrder(Len(Order))
    /\ ~result[2][2]
    /\ \A i \in 3..Len(result) : result[i][2]

\* the request that deletes a resource
DeleteOf(m) ==
    CASE m.kind = "pool" -> [method |-> "POST", url |-> "instance-pools/delete", id |-> m.id]
      [] m.kind = "catalog" ->
            [method |-> "DELETE", url |-> "unity-catalog/catalogs/{name}", id |-> m.id]
      [] m.kind = "job" -> [method |-> "POST", url |-> "jobs/delete", id |-> m.id]
      [] m.kind = "file" -> [method |-> "POST", url |-> "dbfs/delete", id |-> m.id]
      [] m.kind = "notebook" -> [method |-> "POST", url |-> "workspace/delete", id |-> m.id]
Kinds == {"pool", "catalog", "job", "file", "notebook"}
Deletes == {DeleteOf([kind |-> k, id |-> i]) :
               k \in Kinds, i \in {FirstId, SecondId, TestPath, TestNotebookPath, CatalogName}}

\* C30: when a check of the diagnostic script returns, it has sent a delete
\* request for every resource the remote created for it (pool, catalog, job,
\* DBFS file, notebook), and it has sent no other delete request.
ChecksDeleteWhatTheyCreate ==
    (pc \in {"checks", "exited"} /\ Len(result) > 1) =>
        /\ \A m \in io : \E i \in 1..Len(calls) : calls[i] = DeleteOf(m)
        /\ \A i \in 1..Len(calls) :
              calls[i] \in Deletes => \E m \in io : calls[i] = DeleteOf(m)

\* C28: every connection a SQL handler opened is closed exactly once when the
\* invocation has returned, whether its statement gave rows, no rows, no
\* metadata or an error; between serialized invocations none is open, and the
\* one of the running invocation is open and not yet closed.
EveryConnectionClosedOnce ==
    \A k \in 1..Len(conns) :
        IF pc = "connected" /\ k = conn
        THEN conns[k].state = "open" /\ conns[k].closes = 0
        ELSE conns[k].state = "closed" /\ conns[k].closes = 1

ErrorThenNoRowsClosed ==
    /\ pc = "idle" /\ Len(conns) = 2
    /\ conns[1].bad /\ ~conns[2].bad
    /\ handler = "run_sql_query"
    /\ result.description # <<>> /\ result.rows = <<>>
    /\ conns[2].closes = 1

\* C29: under every interleaving of concurrent SQL invocations, the statements
\* run on a connection and its close come from the invocation that opened it,
\* and no statement runs on a connection that is closed.
OnlyOwnerUsesAndCloses ==
    \A k \in 1..Len(conns) :
        /\ conns[k].users \subseteq {conns[k].owner}
        /\ conns[k].closers \subseteq {conns[k].owner}
        /\ ~conns[k].late

ClosedWhileOtherRuns ==
    /\ Len(conns) >= 2
    /\ conns[1].state = "open" /\ conns[1].users # {}
    /\ conns[2].state = "closed" /\ conns[2].owner # conns[1].owner


----------------------------------------------------------------------------
(* upload_to_dbfs and read_dbfs_file against a store that keeps what it is sent *)

Paths == {<<"/", "a">>, <<"/", "a", " ", "b">>}

Repeat(ch, n) == [i \in 1..n |-> ch]

\* short texts, and texts at and just past the default read length
Contents ==
    SeqsUpTo(TextChars, MaxText)
        \cup {Repeat("a", DefaultReadLength), Repeat("a", DefaultReadLength + 1),
              Repeat("a", DefaultReadLength - 1) \o <<EAcute>>}

File(path, bytes) == [path |-> path, bytes |-> bytes]
Stored(store, path) == {f \in store : f.path = path}

ErrorDoc == Dict(Absent, 0)
Unreachable == Answer(NoAnswer, NotJson)

\* dbfs/create: refused when the path exists and overwrite is not set
StoreCreate(store, path, overwrite) ==
    IF Stored(store, path) # {} /\ ~overwrite THEN Answer(400, ErrorDoc)
    ELSE Answer(200, Dict(Absent, NewId))

\* dbfs/read of the first length bytes
StoreRead(store, path, length) ==
    IF Stored(store, path) = {} THEN Answer(404, ErrorDoc)
    ELSE LET f == CHOOSE x \in Stored(store, path) : TRUE
         IN Answer(200, [Dict(Absent, 1) EXCEPT
                            !.data = B64Encode(SubSeq(f.bytes, 1, Min(length, Len(f.bytes))))])

\* the store after the requests of one upload: the file exists once its
\* handle was created, filled and closed
StoreAfter(store, cs) ==
    IF Len(cs) = 3 /\ \A i \in 1..3 : Ok2xx(cs[i].status)
    THEN (store \ Stored(store, cs[1].target))
             \cup {File(cs[1].target, B64Decode(cs[2].payload).bytes)}
    ELSE store

\* upload_to_dbfs(content, path, overwrite); the store is unreachable for the
\* request numbered down (0: for none)
DbfsUpload(content, path, overwrite, down) ==
    /\ io.n < MaxUploads
    /\ LET a == [NoArg EXCEPT !.content = content, !.path = path, !.overwrite = overwrite]
           created == IF down = 1 THEN Unreachable ELSE StoreCreate(dbfs, path, overwrite)
           added == IF down = 2 THEN Unreachable ELSE Answer(200, Dict(Absent, 0))
           closed == IF down = 3 THEN Unreachable ELSE Answer(200, Dict(Absent, 0))
           r == UploadToDbfs(a, cfg, created, added, closed)
       IN /\ Returns("upload_to_dbfs", a, r)
          /\ dbfs' = StoreAfter(dbfs, r.calls)
          /\ io' = [content |-> content, path |-> path,
                    ok |-> (r.out.msg = UploadedMsg), n |-> io.n + 1]

\* read_dbfs_file(path) with its default length
DbfsRead(path) ==
    LET a == [NoArg EXCEPT !.path = path, !.length = DefaultReadLength]
        ans == StoreRead(dbfs, Unquote(Quote(path)), a.length)
    IN /\ Returns("read_dbfs_file", a, ReadDbfsFile(a, cfg, ans))
       /\ UNCHANGED <<dbfs, io>>

NextDbfs ==
    \/ \E content \in Contents, path \in Paths, overwrite \in BOOLEAN, down \in 0..3 :
          DbfsUpload(content, path, overwrite, down)
    \/ \E path \in Paths : DbfsRead(path)

\* the store starts empty or holding one file
InitDbfs ==
    /\ cfg \in Configs
    /\ pc = "idle" /\ handler = "none" /\ arg = NoArg /\ conn = 0 /\ conns = <<>>
    /\ calls = <<>> /\ out = NoOut /\ nInv = 0 /\ failed = FALSE /\ result = NoResult
    /\ dbfs \in {{}, {File(<<"/", "a">>, <<97>>)}}
    /\ io = NoIo

SpecDbfs == InitDbfs /\ [][NextDbfs]_vars

\* C5: when upload_to_dbfs(C, P) has succeeded against a store that keeps what
\* it was sent and read_dbfs_file(P) is invoked next with its defaults, the
\* content the read decodes is C, whatever the length of C.
ReadAfterUploadGivesContent ==
    (handler = "read_dbfs_file" /\ io.ok /\ arg.path = io.path) =>
        out = Returned("## File Contents: ", NoExc, io.content)


====
